---------------------------- MODULE Spec2Model ----------------------------
(***************************************************************************)
(* Kolada MCP server: the API access layer.                                *)
(*                                                                         *)
(*   DataCache     read-through TTL cache  (src/utils/cache.ts)            *)
(*   KoladaClient  rate-limited, retrying HTTP client with pagination      *)
(*                 (src/api/client.ts)                                     *)
(*   KPI tools     get_kpi / get_kpis with their validators and            *)
(*                 handleApiError (src/tools/kpi-tools.ts, utils/errors.ts)*)
(*   JSON-RPC      handleRPCRequest and the MCP CallTool handler           *)
(*                 (src/server/handlers.ts), POST /rpc (src/http-server.ts)*)
(*   KOLADA_CONFIG the rate settings (src/config/constants.ts)             *)
(*                                                                         *)
(* Time is in milliseconds, as Date.now() reports it.                      *)
(***************************************************************************)
EXTENDS Integers, Sequences, FiniteSets, TLC

VARIABLES
  now,          \* Date.now()
  cache,        \* DataCache.cache : key -> CacheEntry, NoEntry when absent
  defaultTTL,   \* DataCache.defaultTTL
  calls,        \* getOrFetch calls suspended at `await fetcher()`
  last,         \* the most recent cache operation (NoOp before the first)
  ret,          \* what the most recent cache operation returned
  unswept,      \* the same cache run had cleanup() never been called
  ticks,        \* number of clock advances so far
  queue,        \* KoladaClient.limiter: clients whose job waits, FIFO
  running,      \* KoladaClient.limiter: the client whose job executes, 0 if none
  nextRequest,  \* KoladaClient.limiter: earliest time the next job may start
  req,          \* per client: the request() call it is awaiting
  trav,         \* per client: its call into KoladaClient and what it collected
  upstream,     \* the page chain the API serves: the size of each page
  starts,       \* the times at which limiter jobs began executing
  lastReq,      \* the request() call that settled most recently
  faults        \* failed HTTP attempts the upstream may still produce

cacheVars == <<cache, defaultTTL, unswept, calls, last, ret>>
clientVars == <<queue, running, nextRequest, req, trav, upstream, starts,
                lastReq, faults>>

-----------------------------------------------------------------------------
(* Bounds of the cache model *)

MaxTicks == 2

Keys == {"k1", "k2"}
Callers == {1, 2}

\* JavaScript values held in the cache: null and two non-null payloads
NULL == [t |-> "null"]
Val(v) == [t |-> "val", v |-> v]
Values == {NULL, Val("a"), Val("b")}

\* the optional ttl argument: <<>> when omitted, <<n>> when n is passed
NoTTL == <<>>
TTLArgs == {NoTTL, <<0>>, <<50>>}

\* new DataCache(defaultTTL): the singleton's 24 hours, the tests' 1 second
DEFAULT_TTL == 86400000
DefaultTTLs == {DEFAULT_TTL, 1000}

\* amounts by which the clock advances between operations
Deltas == {50, DEFAULT_TTL}

-----------------------------------------------------------------------------
(* DataCache *)

NoEntry == [none |-> TRUE]
Idle == [pc |-> "idle"]
NoOp == [op |-> "none"]
NoReq == [pc |-> "none"]
NoCall == [pc |-> "idle", op |-> "none", allData |-> <<>>, e404 |-> 0]
Undefined == [t |-> "undefined"]
Thrown == [t |-> "thrown"]
Bool(b) == [t |-> "bool", b |-> b]
Num(n) == [t |-> "num", n |-> n]

\* a run of the cache as one caller sees it: the map, the caller's suspended
\* getOrFetch, the last value returned; here the run before any call
Unswept0 ==
  [cache |-> [k \in Keys |-> NoEntry], calls |-> Idle, ret |-> Undefined]

\* age > entry.ttl, the age being now - entry.timestamp
\* (an expiry that sets in at age = ttl)
isExpired_atTTL(entry, t) == t - entry.timestamp >= entry.ttl

isExpired(entry, t) == t - entry.timestamp > entry.ttl

\* get(key) without the read-time freshness check
get_stale(c, key, t) ==
  LET entry == c[key] IN
  IF entry = NoEntry
    THEN [ret |-> NULL, cache |-> c]
    ELSE [ret |-> entry.data, cache |-> c]

\* get(key): the value returned and the map afterwards (an expired entry is
\* deleted by the read)
get(c, key, t) ==
  LET entry == c[key] IN
  IF entry = NoEntry
    THEN [ret |-> NULL, cache |-> c]
    ELSE IF isExpired(entry, t)
      THEN [ret |-> NULL, cache |-> [c EXCEPT ![key] = NoEntry]]
      ELSE [ret |-> entry.data, cache |-> c]

\* ttl || this.defaultTTL : an omitted ttl and the number 0 are both falsy
ttlOrDefault(ttl, dflt) ==
  IF ttl = NoTTL THEN dflt
  ELSE IF ttl[1] = 0 THEN dflt
  ELSE ttl[1]

\* set(key, data, ttl)
\* (a set that leaves an entry already stored under the key alone)
set_ifAbsent(c, key, data, ttl, t, dflt) ==
  IF c[key] # NoEntry THEN c
  ELSE [c EXCEPT ![key] = [data |-> data, timestamp |-> t,
                           ttl |-> ttlOrDefault(ttl, dflt)]]

set(c, key, data, ttl, t, dflt) ==
  [c EXCEPT ![key] = [data |-> data, timestamp |-> t,
                      ttl |-> ttlOrDefault(ttl, dflt)]]

\* cleanup(): the map without its expired entries
\* (a sweep that also takes the entries whose age equals their ttl)
cleanup_atTTL(c, t) ==
  [k \in Keys |-> IF c[k] # NoEntry /\ t - c[k].timestamp >= c[k].ttl
                    THEN NoEntry ELSE c[k]]

cleanup(c, t) ==
  [k \in Keys |-> IF c[k] # NoEntry /\ isExpired(c[k], t) THEN NoEntry ELSE c[k]]

\* the value cleanup() returns: removed, incremented at every delete
cleanup_removed(c, t) ==
  Cardinality({k \in Keys : c[k] # NoEntry /\ cleanup(c, t)[k] = NoEntry})

\* JSON.stringify(data).length for null and for a string without escapes
jsonLength(data) == IF data = NULL THEN 4 ELSE Len(data.v) + 2

RECURSIVE sumSizes(_, _)
\* _estimateSize(): two bytes per character of every entry's payload
sumSizes(c, ks) ==
  IF ks = {} THEN 0
  ELSE LET k == CHOOSE x \in ks : TRUE IN
       jsonLength(c[k].data) * 2 + sumSizes(c, ks \ {k})

\* getStats()
\* (statistics that count an entry whose age equals its ttl as expired)
getStats_atTTL(c, t) ==
  [total |-> Cardinality({k \in Keys : c[k] # NoEntry}),
   valid |-> Cardinality({k \in Keys : c[k] # NoEntry /\ ~(t - c[k].timestamp >= c[k].ttl)}),
   expired |-> Cardinality({k \in Keys : c[k] # NoEntry /\ t - c[k].timestamp >= c[k].ttl}),
   size_bytes |-> sumSizes(c, {k \in Keys : c[k] # NoEntry})]

getStats(c, t) ==
  [total |-> Cardinality({k \in Keys : c[k] # NoEntry}),
   valid |-> Cardinality({k \in Keys : c[k] # NoEntry /\ ~(t - c[k].timestamp > c[k].ttl)}),
   expired |-> Cardinality({k \in Keys : c[k] # NoEntry /\ t - c[k].timestamp > c[k].ttl}),
   size_bytes |-> sumSizes(c, {k \in Keys : c[k] # NoEntry})]

\* how a read finds the key: no entry, an entry past its ttl, a live entry
found(c, key, t) ==
  IF c[key] = NoEntry THEN "absent"
  ELSE IF t - c[key].timestamp > c[key].ttl THEN "expired"
  ELSE "live"

Get(k) ==
  LET r == get(cache, k, now) IN
  /\ cache' = r.cache
  /\ ret' = r.ret
  /\ last' = [op |-> "get", key |-> k, found |-> found(cache, k, now)]
  /\ UNCHANGED <<now, ticks, defaultTTL, unswept, calls, clientVars>>

Set(k, v, ttl) ==
  /\ cache' = set(cache, k, v, ttl, now, defaultTTL)
  /\ ret' = Undefined
  /\ last' = [op |-> "set", key |-> k, prior |-> found(cache, k, now)]
  /\ UNCHANGED <<now, ticks, defaultTTL, unswept, calls, clientVars>>

\* the callers whose getOrFetch of key k is suspended at `await fetcher()`
fetching(k) == {c \in Callers : calls[c] # Idle /\ calls[c].key = k}

\* delete(key): Map.delete reports whether the key was present; `during` are
\* the fetches of the key that were in flight when it was called
\* (a delete that reports true whatever the map held)
Delete_reportsTrue(k) ==
  /\ cache' = [cache EXCEPT ![k] = NoEntry]
  /\ ret' = Bool(TRUE)
  /\ last' = [op |-> "delete", key |-> k, during |-> fetching(k)]
  /\ UNCHANGED <<now, ticks, defaultTTL, unswept, calls, clientVars>>

Delete(k) ==
  /\ cache' = [cache EXCEPT ![k] = NoEntry]
  /\ ret' = Bool(cache[k] # NoEntry)
  /\ last' = [op |-> "delete", key |-> k, during |-> fetching(k)]
  /\ UNCHANGED <<now, ticks, defaultTTL, unswept, calls, clientVars>>

Clear ==
  /\ cache' = [k \in Keys |-> NoEntry]
  /\ ret' = Undefined
  /\ last' = [op |-> "clear", during |-> UNION {fetching(k) : k \in Keys}]
  /\ UNCHANGED <<now, ticks, defaultTTL, unswept, calls, clientVars>>

\* getStats(): the map is read, nothing is written
GetStats ==
  /\ ret' = getStats(cache, now)
  /\ last' = [op |-> "getStats"]
  /\ UNCHANGED <<now, ticks, cache, defaultTTL, unswept, calls, clientVars>>

\* the hourly janitor (setInterval) and direct calls of cleanup()
Cleanup ==
  /\ cache' = cleanup(cache, now)
  /\ cache' # cache
  /\ UNCHANGED <<now, ticks, defaultTTL, unswept, calls, last, ret, clientVars>>

\* getOrFetch(key, fetcher, ttl) up to its first suspension: a hit returns,
\* a miss invokes fetcher and suspends at the await
\* (a getOrFetch that joins a fetch already in flight for the key)
getOrFetch_dedup(c, k, ttl) ==
  LET r == get(cache, k, now) IN
  /\ calls[c] = Idle
  /\ cache' = r.cache
  /\ IF r.ret # NULL \/ \E d \in Callers \ {c} : calls[d] # Idle /\ calls[d].key = k
       THEN /\ ret' = r.ret
            /\ last' = [op |-> "getOrFetch", key |-> k, ttl |-> ttl,
                        time |-> now, fetched |-> FALSE]
            /\ UNCHANGED calls
       ELSE /\ calls' = [calls EXCEPT ![c] = [pc |-> "fetching", key |-> k,
                                              ttl |-> ttl]]
            /\ UNCHANGED <<last, ret>>

getOrFetch(c, k, ttl) ==
  LET r == get(cache, k, now) IN
  /\ calls[c] = Idle
  /\ cache' = r.cache
  /\ IF r.ret # NULL
       THEN /\ ret' = r.ret
            /\ last' = [op |-> "getOrFetch", key |-> k, ttl |-> ttl,
                        time |-> now, fetched |-> FALSE]
            /\ UNCHANGED calls
       ELSE /\ calls' = [calls EXCEPT ![c] = [pc |-> "fetching", key |-> k,
                                              ttl |-> ttl]]
            /\ UNCHANGED <<last, ret>>

\* the fetcher resolves with data: this.set(key, data, ttl); return data
\* (prior is what a get of the key returned just before set was called)
getOrFetch_resolved(c, data) ==
  /\ calls[c] # Idle
  /\ cache' = set(cache, calls[c].key, data, calls[c].ttl, now, defaultTTL)
  /\ ret' = data
  /\ last' = [op |-> "getOrFetch", key |-> calls[c].key, ttl |-> calls[c].ttl,
              time |-> now, fetched |-> TRUE,
              prior |-> get(cache, calls[c].key, now).ret]
  /\ calls' = [calls EXCEPT ![c] = Idle]

\* the fetcher rejects: the await throws and getOrFetch rejects
\* (a getOrFetch that remembers the failure under the key)
getOrFetch_rejected_cached(c) ==
  /\ calls[c] # Idle
  /\ cache' = set(cache, calls[c].key, Thrown, calls[c].ttl, now, defaultTTL)
  /\ ret' = Thrown
  /\ last' = [op |-> "getOrFetch", key |-> calls[c].key, ttl |-> calls[c].ttl,
              time |-> now, fetched |-> TRUE]
  /\ calls' = [calls EXCEPT ![c] = Idle]

getOrFetch_rejected(c) ==
  /\ calls[c] # Idle
  /\ ret' = Thrown
  /\ last' = [op |-> "getOrFetch", key |-> calls[c].key, ttl |-> calls[c].ttl,
              time |-> now, fetched |-> TRUE]
  /\ calls' = [calls EXCEPT ![c] = Idle]
  /\ UNCHANGED cache

\* getOrFetch with a fetcher outside the client (the unit tests' vi.fn())
GetOrFetch(c, k, ttl) ==
  /\ getOrFetch(c, k, ttl)
  /\ UNCHANGED <<now, ticks, defaultTTL, unswept, clientVars>>

FetcherResolves(c, data) ==
  /\ getOrFetch_resolved(c, data)
  /\ UNCHANGED <<now, ticks, defaultTTL, unswept, clientVars>>

FetcherRejects(c) ==
  /\ getOrFetch_rejected(c)
  /\ UNCHANGED <<now, ticks, defaultTTL, unswept, clientVars>>

Advance(d) ==
  /\ ticks < MaxTicks
  /\ now' = now + d
  /\ ticks' = ticks + 1
  /\ UNCHANGED <<cacheVars, clientVars>>

InitCache ==
  /\ now = 0
  /\ ticks = 0
  /\ cache = [k \in Keys |-> NoEntry]
  /\ defaultTTL \in DefaultTTLs
  /\ unswept = Unswept0
  /\ calls = [c \in Callers |-> Idle]
  /\ last = NoOp
  /\ ret = Undefined
  /\ queue = <<>>
  /\ running = 0
  /\ nextRequest = 0
  /\ req = [c \in Callers |-> NoReq]
  /\ trav = [c \in Callers |-> NoCall]
  /\ upstream = <<>>
  /\ starts = <<>>
  /\ lastReq = NoReq
  /\ faults = 0

NextCache ==
  \/ \E k \in Keys : Get(k)
  \/ \E k \in Keys, v \in Values, ttl \in TTLArgs : Set(k, v, ttl)
  \/ \E k \in Keys : Delete(k)
  \/ Clear
  \/ Cleanup
  \/ \E k \in Keys, ttl \in TTLArgs : GetOrFetch(1, k, ttl)
  \/ \E v \in Values : FetcherResolves(1, v)
  \/ FetcherRejects(1)
  \/ \E d \in Deltas : Advance(d)

vars == <<now, ticks, cacheVars, clientVars>>

SpecCache == InitCache /\ [][NextCache]_vars

\* the synchronous operations only: no getOrFetch is in flight
NextStore ==
  \/ \E k \in Keys : Get(k)
  \/ \E k \in Keys, v \in Values, ttl \in TTLArgs : Set(k, v, ttl)
  \/ \E k \in Keys : Delete(k)
  \/ Clear
  \/ GetStats
  \/ Cleanup
  \/ \E d \in Deltas : Advance(d)

SpecStore == InitCache /\ [][NextStore]_vars

\* concurrent callers of getOrFetch for one key, whose fetchers settle in any
\* order
NextConc ==
  \/ \E c \in Callers, ttl \in TTLArgs : GetOrFetch(c, "k1", ttl)
  \/ \E c \in Callers, v \in Values : FetcherResolves(c, v)
  \/ \E c \in Callers : FetcherRejects(c)
  \/ \E d \in Deltas : Advance(d)

SpecConc == InitCache /\ [][NextConc]_vars

\* one caller reading through the cache, its fetcher resolving or rejecting;
\* nothing else writes
NextFetch ==
  \/ \E k \in Keys, ttl \in TTLArgs : GetOrFetch(1, k, ttl)
  \/ \E v \in Values : FetcherResolves(1, v)
  \/ FetcherRejects(1)
  \/ \E d \in Deltas : Advance(d)

SpecFetch == InitCache /\ [][NextFetch]_vars

-----------------------------------------------------------------------------
(* The cache with the janitor next to the same cache never swept *)

\* the run of caller 1 on the cache that cleanup() does sweep
swept == [cache |-> cache, calls |-> calls[1], ret |-> ret]

\* the operations of DataCache as steps of a run s at time t
run_get(s, k, t) ==
  [cache |-> get(s.cache, k, t).cache, calls |-> s.calls,
   ret |-> get(s.cache, k, t).ret]

run_set(s, k, v, ttl, t, dflt) ==
  [cache |-> set(s.cache, k, v, ttl, t, dflt), calls |-> s.calls,
   ret |-> Undefined]

run_delete(s, k) ==
  [cache |-> [s.cache EXCEPT ![k] = NoEntry], calls |-> s.calls,
   ret |-> Bool(s.cache[k] # NoEntry)]

run_clear(s) ==
  [cache |-> [k \in Keys |-> NoEntry], calls |-> s.calls, ret |-> Undefined]

\* getOrFetch up to its first suspension
run_getOrFetch(s, k, ttl, t) ==
  IF get(s.cache, k, t).ret # NULL
    THEN [cache |-> get(s.cache, k, t).cache, calls |-> s.calls,
          ret |-> get(s.cache, k, t).ret]
    ELSE [cache |-> get(s.cache, k, t).cache,
          calls |-> [pc |-> "fetching", key |-> k, ttl |-> ttl], ret |-> s.ret]

\* the fetcher of a suspended getOrFetch resolves with data
run_resolved(s, data, t, dflt) ==
  IF s.calls = Idle THEN s
  ELSE [cache |-> set(s.cache, s.calls.key, data, s.calls.ttl, t, dflt),
        calls |-> Idle, ret |-> data]

\* the fetcher of a suspended getOrFetch rejects
run_rejected(s) ==
  IF s.calls = Idle THEN s
  ELSE [cache |-> s.cache, calls |-> Idle, ret |-> Thrown]

\* caller 1 makes the same call on both caches; s1 and s2 are the runs after it
both(s1, s2, op) ==
  /\ cache' = s1.cache
  /\ calls' = [calls EXCEPT ![1] = s1.calls]
  /\ ret' = s1.ret
  /\ unswept' = s2
  /\ last' = op

BothGet(k) ==
  /\ both(run_get(swept, k, now), run_get(unswept, k, now),
          [op |-> "get", key |-> k, found |-> found(cache, k, now)])
  /\ UNCHANGED <<now, ticks, defaultTTL, clientVars>>

BothSet(k, v, ttl) ==
  /\ both(run_set(swept, k, v, ttl, now, defaultTTL),
          run_set(unswept, k, v, ttl, now, defaultTTL), [op |-> "set", key |-> k])
  /\ UNCHANGED <<now, ticks, defaultTTL, clientVars>>

BothDelete(k) ==
  /\ both(run_delete(swept, k), run_delete(unswept, k),
          [op |-> "delete", key |-> k])
  /\ UNCHANGED <<now, ticks, defaultTTL, clientVars>>

BothClear ==
  /\ both(run_clear(swept), run_clear(unswept), [op |-> "clear"])
  /\ UNCHANGED <<now, ticks, defaultTTL, clientVars>>

BothGetOrFetch(k, ttl) ==
  /\ calls[1] = Idle /\ unswept.calls = Idle
  /\ both(run_getOrFetch(swept, k, ttl, now), run_getOrFetch(unswept, k, ttl, now),
          IF get(cache, k, now).ret # NULL
            THEN [op |-> "getOrFetch", key |-> k, ttl |-> ttl, time |-> now,
                  fetched |-> FALSE]
            ELSE last)
  /\ UNCHANGED <<now, ticks, defaultTTL, clientVars>>

\* the getOrFetch call of caller 1 that is suspended
pending == IF calls[1] # Idle THEN calls[1] ELSE unswept.calls

BothResolve(data) ==
  /\ calls[1] # Idle \/ unswept.calls # Idle
  /\ both(run_resolved(swept, data, now, defaultTTL),
          run_resolved(unswept, data, now, defaultTTL),
          [op |-> "getOrFetch", key |-> pending.key, ttl |-> pending.ttl,
           time |-> now, fetched |-> TRUE])
  /\ UNCHANGED <<now, ticks, defaultTTL, clientVars>>

BothReject ==
  /\ calls[1] # Idle \/ unswept.calls # Idle
  /\ both(run_rejected(swept), run_rejected(unswept),
          [op |-> "getOrFetch", key |-> pending.key, ttl |-> pending.ttl,
           time |-> now, fetched |-> TRUE])
  /\ UNCHANGED <<now, ticks, defaultTTL, clientVars>>

\* a direct call of cleanup(), as in the unit tests: the count is returned
CallCleanup ==
  /\ cache' = cleanup(cache, now)
  /\ ret' = Num(cleanup_removed(cache, now))
  /\ last' = [op |-> "cleanup"]
  /\ UNCHANGED <<now, ticks, defaultTTL, unswept, calls, clientVars>>

\* the payloads of the comparison: null and one string
JanitorValues == {NULL, Val("a")}

\* every operation of the cache, with sweeps at any point on one of the two
NextJanitor ==
  \/ \E k \in Keys : BothGet(k)
  \/ \E k \in Keys, v \in JanitorValues, ttl \in TTLArgs : BothSet(k, v, ttl)
  \/ \E k \in Keys : BothDelete(k)
  \/ BothClear
  \/ \E k \in Keys, ttl \in TTLArgs : BothGetOrFetch(k, ttl)
  \/ \E v \in JanitorValues : BothResolve(v)
  \/ BothReject
  \/ Cleanup
  \/ CallCleanup
  \/ \E d \in Deltas : Advance(d)

\* the cache of the unit tests, new DataCache(1000)
InitJanitor == InitCache /\ defaultTTL = 1000

SpecJanitor == InitJanitor /\ [][NextJanitor]_vars

-----------------------------------------------------------------------------
(* KoladaClient: configuration *)

MIN_REQUEST_INTERVAL == 200
MAX_RETRIES == 3
RETRY_DELAY_BASE == 1000
CATALOG_TTL == 86400000

(* Bounds of the client model *)

MaxPages == 3
MaxTime == 6000
MaxFailures == 4
PageFaults == 1
LimiterFaults == 1
LimiterHorizon == 1200

\* records per page of the chains the API serves
PageSizes == {0, 2}
\* amounts by which the clock advances while no timer is due
ClientDeltas == {100, 1000}
\* the cache key of the catalog fetched through getOrFetch
CatalogKey == "k1"
\* the query parameters a tool hands to fetchAllData (get_kpi_groups)
ToolParams == [title |-> "skola"]

-----------------------------------------------------------------------------
(* The upstream API *)

\* every chain of 1..MaxPages pages: page p holds chain[p] records and links
\* to page p + 1 unless it is the last
Chains == UNION {[1..n -> PageSizes] : n \in 1..MaxPages}

\* record j of page p
values(chain, p) == [j \in 1..chain[p] |-> <<p, j>>]

\* the envelope answering a request for page p; next_page 0 stands for no link
envelope(chain, p) ==
  [values |-> values(chain, p), count |-> chain[p],
   next_page |-> IF p < Len(chain) THEN p + 1 ELSE 0]

RECURSIVE allRecords(_, _)
\* the records of pages p..Len(chain), in page order
allRecords(chain, p) ==
  IF p > Len(chain) THEN <<>>
  ELSE values(chain, p) \o allRecords(chain, p + 1)

\* what one HTTP attempt ends with: a response status, or no response and an
\* error code (ECONNABORTED is how axios reports its own timeout)
Ok == [status |-> 200, code |-> "OK"]
HttpError(st) == [status |-> st, code |-> "ERR_BAD_RESPONSE"]
NetError(code) == [status |-> 0, code |-> code]
Statuses == {400, 403, 404, 429, 500, 503}
Outcomes ==
  {Ok} \cup {HttpError(st) : st \in Statuses}
       \cup {NetError("ECONNREFUSED"), NetError("ECONNABORTED")}

\* a success, a retried failure, a failure that is not retried
LimiterOutcomes == {Ok, HttpError(429), HttpError(400)}

-----------------------------------------------------------------------------
(* KoladaClient: retry policy (axios-retry) *)

\* axiosRetry.isNetworkError: no response, and not a timeout or a cancel
isNetworkError(e) ==
  e.status = 0 /\ e.code \notin {"ERR_CANCELED", "ECONNABORTED"}

\* axiosRetry.isRetryableError: not a timeout, and no response or a 5xx one
isRetryableError(e) ==
  e.code # "ECONNABORTED" /\ (e.status = 0 \/ (e.status >= 500 /\ e.status <= 599))

\* every request of the client is a GET, an idempotent method
isIdempotentRequestError(e) == isRetryableError(e)

isNetworkOrIdempotentRequestError(e) ==
  isNetworkError(e) \/ isIdempotentRequestError(e)

retryCondition(e) ==
  isNetworkOrIdempotentRequestError(e) \/ e.status = 429

\* retryDelay: the pause before retry number retryCount
\* (a backoff that doubles: 1000, 2000, 4000)
retryDelay_exponential(retryCount) == 2 ^ (retryCount - 1) * RETRY_DELAY_BASE

retryDelay(retryCount) == retryCount * RETRY_DELAY_BASE

\* what request() settles with once axios has given up on the attempt's
\* outcome o for page p: the response data, the empty envelope for a 404, or
\* a thrown Error, whose message is made of ERROR_MESSAGES.API_ERROR and the
\* statusText or message of the failed attempt
EmptyEnvelope == [values |-> <<>>, count |-> 0, next_page |-> 0]

\* request() whose catch has no 404 branch
request_settle_throw404(chain, p, o) ==
  IF o = Ok THEN [ok |-> TRUE, data |-> envelope(chain, p)]
  ELSE [ok |-> FALSE, error |-> "API_ERROR",
        message |-> <<Val("Kolada API error"), o>>]

request_settle(chain, p, o) ==
  IF o = Ok THEN [ok |-> TRUE, data |-> envelope(chain, p)]
  ELSE IF o.status = 404 THEN [ok |-> TRUE, data |-> EmptyEnvelope]
  ELSE [ok |-> FALSE, error |-> "API_ERROR",
        message |-> <<Val("Kolada API error"), o>>]

-----------------------------------------------------------------------------
(* KoladaClient: limiter, request, fetchAllPages, fetchAllData *)

\* this.limiter.schedule(...): the job joins the limiter's queue; its ticket
\* is its place in the order of all schedule calls (the jobs that began and
\* the jobs that wait were scheduled before it)
submit(c, p) ==
  /\ req' = [req EXCEPT ![c] = [pc |-> "queued", url |-> p, log |-> <<>>,
                                ticket |-> Len(starts) + Len(queue) + 1]]
  /\ queue' = Append(queue, c)

\* a tool calls koladaClient.request(endpoint) for a single envelope
CallRequest(c) ==
  /\ trav[c] = NoCall
  /\ submit(c, 1)
  /\ trav' = [trav EXCEPT ![c] = [pc |-> "active", op |-> "request",
                                  allData |-> <<>>, e404 |-> 0]]
  /\ UNCHANGED <<now, ticks, cacheVars, running, nextRequest, upstream,
                 starts, lastReq, faults>>

\* a tool calls koladaClient.fetchAllData(endpoint, params); reqs are the
\* arguments of the request() calls of the traversal so far, envs the
\* envelopes they returned
CallFetchAllData(c) ==
  /\ trav[c] = NoCall
  /\ submit(c, 1)
  /\ trav' = [trav EXCEPT ![c] =
                [pc |-> "active", op |-> "fetchAllData", allData |-> <<>>,
                 e404 |-> 0, reqs |-> <<[url |-> 1, params |-> ToolParams]>>,
                 envs |-> <<>>]]
  /\ UNCHANGED <<now, ticks, cacheVars, running, nextRequest, upstream,
                 starts, lastReq, faults>>

\* a tool calls dataCache.getOrFetch(key, () => koladaClient.fetchAllData(..),
\* 86400000): a hit returns the cached array, a miss starts the traversal
CallGetOrFetch(c) ==
  /\ trav[c] = NoCall
  /\ getOrFetch(c, CatalogKey, <<CATALOG_TTL>>)
  /\ IF calls'[c] = Idle
       THEN /\ trav' = [trav EXCEPT ![c] =
                          [pc |-> "done", op |-> "getOrFetch", allData |-> ret'.v,
                           e404 |-> 0, reqs |-> <<>>, envs |-> <<>>]]
            /\ UNCHANGED <<req, queue>>
       ELSE /\ submit(c, 1)
            /\ trav' = [trav EXCEPT ![c] =
                          [pc |-> "active", op |-> "getOrFetch", allData |-> <<>>,
                           e404 |-> 0, reqs |-> <<[url |-> 1, params |-> Undefined]>>,
                           envs |-> <<>>]]
  /\ UNCHANGED <<now, ticks, defaultTTL, unswept, running, nextRequest, upstream,
                 starts, lastReq, faults>>

\* Bottleneck (maxConcurrent 1, minTime MIN_REQUEST_INTERVAL) launches the
\* job at the head of the queue; the job's first statement issues axios.get,
\* and sentAt is the time at which the HTTP attempt under way was sent
\* a limiter without minTime
canStart_noMinTime == running = 0 /\ queue # <<>>

canStart == running = 0 /\ queue # <<>> /\ now >= nextRequest

\* (a limiter that launches the job scheduled last)
StartJob_lifo ==
  /\ canStart
  /\ running' = queue[Len(queue)]
  /\ queue' = SubSeq(queue, 1, Len(queue) - 1)
  /\ nextRequest' = now + MIN_REQUEST_INTERVAL
  /\ starts' = Append(starts, now)
  /\ req' = [req EXCEPT ![queue[Len(queue)]] =
               [pc |-> "sent", url |-> @.url, log |-> @.log, ticket |-> @.ticket,
                sentAt |-> now]]
  /\ UNCHANGED <<now, ticks, cacheVars, trav, upstream, lastReq, faults>>

StartJob ==
  /\ canStart
  /\ running' = Head(queue)
  /\ queue' = Tail(queue)
  /\ nextRequest' = now + MIN_REQUEST_INTERVAL
  /\ starts' = Append(starts, now)
  /\ req' = [req EXCEPT ![Head(queue)] =
               [pc |-> "sent", url |-> @.url, log |-> @.log, ticket |-> @.ticket,
                sentAt |-> now]]
  /\ UNCHANGED <<now, ticks, cacheVars, trav, upstream, lastReq, faults>>

\* an attempt fails and axios-retry schedules the next one
RespondRetry(c, o) ==
  /\ req[c].pc = "sent"
  /\ o # Ok
  /\ faults > 0
  /\ Len(req[c].log) < MAX_RETRIES
  /\ retryCondition(o)
  /\ req' = [req EXCEPT ![c] =
               [pc |-> "backoff", url |-> req[c].url, ticket |-> req[c].ticket,
                log |-> Append(req[c].log, o),
                retryAt |-> now + retryDelay(Len(req[c].log) + 1)]]
  /\ faults' = faults - 1
  /\ UNCHANGED <<now, ticks, cacheVars, queue, running, nextRequest, trav,
                 upstream, starts, lastReq>>

\* the retry delay has elapsed: axios-retry re-issues the request
Retry(c) ==
  /\ req[c].pc = "backoff"
  /\ now >= req[c].retryAt
  /\ req' = [req EXCEPT ![c] = [pc |-> "sent", url |-> req[c].url,
                                log |-> req[c].log, ticket |-> req[c].ticket,
                                sentAt |-> now]]
  /\ UNCHANGED <<now, ticks, cacheVars, queue, running, nextRequest, trav,
                 upstream, starts, lastReq, faults>>

\* the attempt whose outcome o settles request(): a success, or a failure
\* that axios-retry does not retry
settles(c, o) ==
  /\ req[c].pc = "sent"
  /\ o # Ok => faults > 0
  /\ o = Ok \/ Len(req[c].log) >= MAX_RETRIES \/ ~retryCondition(o)

settled(c, o) ==
  [client |-> c, url |-> req[c].url, log |-> Append(req[c].log, o),
   sentAt |-> req[c].sentAt,
   res |-> request_settle(upstream, req[c].url, o)]

\* fetchAllPages that stops at an envelope with empty values
fetchAllPages_stopAtEmpty(allData, env) ==
  [allData |-> IF Len(env.values) > 0 THEN allData \o env.values ELSE allData,
   nextUrl |-> IF Len(env.values) > 0 THEN env.next_page ELSE 0,
   queryParams |-> Undefined]

\* fetchAllPages after one envelope: what fetchAllData has collected, the
\* page to request next (0 ends the loop) and the query parameters of that
\* request; empty values yield nothing
fetchAllPages(allData, env) ==
  [allData |-> IF Len(env.values) > 0 THEN allData \o env.values ELSE allData,
   nextUrl |-> env.next_page,
   queryParams |-> Undefined]

\* request() settles for a caller that awaits a single envelope
RespondRequest(c, o) ==
  /\ settles(c, o)
  /\ trav[c].op = "request"
  /\ LET s == settled(c, o) IN
     /\ lastReq' = s
     /\ trav' = [trav EXCEPT ![c] =
                   [pc |-> IF s.res.ok THEN "done" ELSE "raised",
                    op |-> "request",
                    allData |-> IF s.res.ok THEN s.res.data.values ELSE <<>>,
                    e404 |-> IF o.status = 404 THEN 1 ELSE 0]]
  /\ req' = [req EXCEPT ![c] = NoReq]
  /\ running' = 0
  /\ faults' = IF o = Ok THEN faults ELSE faults - 1
  /\ UNCHANGED <<now, ticks, cacheVars, queue, nextRequest, upstream, starts>>

\* request() returns an envelope carrying next_page inside a traversal: the
\* page is collected and the next request is scheduled
\* (a walker that requests the page after the linked one when there is one)
RespondPageNext_skip(c, o) ==
  /\ settles(c, o)
  /\ trav[c].op \in {"fetchAllData", "getOrFetch"}
  /\ LET s == settled(c, o) IN
     /\ s.res.ok
     /\ lastReq' = s
     /\ LET f == fetchAllPages(trav[c].allData, s.res.data)
            u == IF f.nextUrl < Len(upstream) THEN f.nextUrl + 1 ELSE f.nextUrl
        IN
        /\ f.nextUrl # 0
        /\ trav' = [trav EXCEPT
                      ![c].allData = f.allData,
                      ![c].reqs = Append(@, [url |-> u, params |-> f.queryParams]),
                      ![c].envs = Append(@, s.res.data)]
        /\ submit(c, u)
  /\ running' = 0
  /\ faults' = IF o = Ok THEN faults ELSE faults - 1
  /\ UNCHANGED <<now, ticks, cacheVars, nextRequest, upstream, starts>>

RespondPageNext(c, o) ==
  /\ settles(c, o)
  /\ trav[c].op \in {"fetchAllData", "getOrFetch"}
  /\ LET s == settled(c, o) IN
     /\ s.res.ok
     /\ lastReq' = s
     /\ LET f == fetchAllPages(trav[c].allData, s.res.data) IN
        /\ f.nextUrl # 0
        /\ trav' = [trav EXCEPT
                      ![c].allData = f.allData,
                      ![c].reqs = Append(@, [url |-> f.nextUrl,
                                             params |-> f.queryParams]),
                      ![c].envs = Append(@, s.res.data)]
        /\ submit(c, f.nextUrl)
  /\ running' = 0
  /\ faults' = IF o = Ok THEN faults ELSE faults - 1
  /\ UNCHANGED <<now, ticks, cacheVars, nextRequest, upstream, starts>>

\* request() returns an envelope without next_page inside a traversal: the
\* loop ends, fetchAllData returns, and getOrFetch stores what was collected
RespondPageLast(c, o) ==
  /\ settles(c, o)
  /\ trav[c].op \in {"fetchAllData", "getOrFetch"}
  /\ LET s == settled(c, o) IN
     /\ s.res.ok
     /\ lastReq' = s
     /\ LET f == fetchAllPages(trav[c].allData, s.res.data) IN
        /\ f.nextUrl = 0
        /\ trav' = [trav EXCEPT ![c] =
                      [pc |-> "done", op |-> trav[c].op, allData |-> f.allData,
                       e404 |-> IF o.status = 404 THEN req[c].url ELSE 0,
                       reqs |-> trav[c].reqs,
                       envs |-> Append(trav[c].envs, s.res.data)]]
        /\ IF trav[c].op = "getOrFetch"
             THEN getOrFetch_resolved(c, Val(f.allData))
             ELSE UNCHANGED <<cache, calls, last, ret>>
  /\ req' = [req EXCEPT ![c] = NoReq]
  /\ running' = 0
  /\ faults' = IF o = Ok THEN faults ELSE faults - 1
  /\ UNCHANGED <<now, ticks, defaultTTL, unswept, queue, nextRequest, upstream, starts>>

\* request() throws inside a traversal: fetchAllData rejects, and so does
\* the getOrFetch awaiting it
RespondPageRaise(c, o) ==
  /\ settles(c, o)
  /\ trav[c].op \in {"fetchAllData", "getOrFetch"}
  /\ LET s == settled(c, o) IN
     /\ ~s.res.ok
     /\ lastReq' = s
  /\ trav' = [trav EXCEPT ![c].pc = "raised"]
  /\ IF trav[c].op = "getOrFetch"
       THEN getOrFetch_rejected(c)
       ELSE UNCHANGED <<cache, calls, last, ret>>
  /\ req' = [req EXCEPT ![c] = NoReq]
  /\ running' = 0
  /\ faults' = faults - 1
  /\ UNCHANGED <<now, ticks, defaultTTL, unswept, queue, nextRequest, upstream, starts>>

\* the timers that are armed: the limiter's next launch, the retry delays
timers ==
  (IF running = 0 /\ queue # <<>> THEN {nextRequest} ELSE {})
    \cup {req[c].retryAt : c \in {x \in Callers : req[x].pc = "backoff"}}

Min(S) == CHOOSE x \in S : \A y \in S : x <= y

\* time passes, up to the next armed timer; a due timer fires first
AdvanceClient(d, horizon) ==
  /\ \A t \in timers : t > now
  /\ now' = Min({now + d} \cup timers)
  /\ now' <= horizon
  /\ UNCHANGED <<ticks, cacheVars, clientVars>>

\* the client and the cache as constructed, before any call; the upstream
\* serves one of the given chains and may fail the given number of attempts
InitClient(chains, budget) ==
  /\ now = 0
  /\ ticks = 0
  /\ cache = [k \in Keys |-> NoEntry]
  /\ defaultTTL = DEFAULT_TTL
  /\ unswept = Unswept0
  /\ calls = [c \in Callers |-> Idle]
  /\ last = NoOp
  /\ ret = Undefined
  /\ queue = <<>>
  /\ running = 0
  /\ nextRequest = 0
  /\ req = [c \in Callers |-> NoReq]
  /\ trav = [c \in Callers |-> NoCall]
  /\ upstream \in chains
  /\ starts = <<>>
  /\ lastReq = NoReq
  /\ faults = budget

\* paginated traversals, direct and through the cache, by concurrent tools;
\* time moves from timer to timer
InitPages == InitClient(Chains, PageFaults)

NextPages ==
  \/ \E c \in Callers : CallFetchAllData(c)
  \/ \E c \in Callers : CallGetOrFetch(c)
  \/ StartJob
  \/ \E c \in Callers, o \in Outcomes : RespondRetry(c, o)
  \/ \E c \in Callers : Retry(c)
  \/ \E c \in Callers, o \in Outcomes : RespondPageNext(c, o)
  \/ \E c \in Callers, o \in Outcomes : RespondPageLast(c, o)
  \/ \E c \in Callers, o \in Outcomes : RespondPageRaise(c, o)
  \/ AdvanceClient(MaxTime, MaxTime)

Spec == InitPages /\ [][NextPages]_vars

\* one logical request against an upstream that may fail every attempt
InitRequest == InitClient({ch \in Chains : Len(ch) <= 2}, MaxFailures)

NextRequest ==
  \/ CallRequest(1)
  \/ StartJob
  \/ \E o \in Outcomes : RespondRetry(1, o)
  \/ Retry(1)
  \/ \E o \in Outcomes : RespondRequest(1, o)
  \/ AdvanceClient(MaxTime, MaxTime)

SpecRequest == InitRequest /\ [][NextRequest]_vars

\* concurrent tools issuing single requests and traversals through the one
\* limiter, with the clock moving in steps shorter than the interval
InitLimiter == InitClient({ch \in Chains : \A p \in DOMAIN ch : ch[p] = 2},
                          LimiterFaults)

NextLimiter ==
  \/ \E c \in Callers : CallRequest(c)
  \/ \E c \in Callers : CallFetchAllData(c)
  \/ StartJob
  \/ \E c \in Callers, o \in LimiterOutcomes : RespondRetry(c, o)
  \/ \E c \in Callers : Retry(c)
  \/ \E c \in Callers, o \in LimiterOutcomes : RespondRequest(c, o)
  \/ \E c \in Callers, o \in LimiterOutcomes : RespondPageNext(c, o)
  \/ \E c \in Callers, o \in LimiterOutcomes : RespondPageLast(c, o)
  \/ \E c \in Callers, o \in LimiterOutcomes : RespondPageRaise(c, o)
  \/ \E d \in ClientDeltas : AdvanceClient(d, LimiterHorizon)

SpecLimiter == InitLimiter /\ [][NextLimiter]_vars

-----------------------------------------------------------------------------
(* fetchAllPages against an upstream whose next_page links form a cycle *)

\* the requests of one traversal that are followed
MaxRequests == 5

\* the last page links back to page `back` instead of ending the chain
CyclicChains ==
  {[sizes |-> ch, back |-> b] : ch \in {x \in Chains : Len(x) <= 2}, b \in 1..2}
     \ {[sizes |-> ch, back |-> 2] : ch \in {x \in Chains : Len(x) = 1}}

cyclicEnvelope(up, p) ==
  [values |-> values(up.sizes, p), count |-> up.sizes[p],
   next_page |-> IF p < Len(up.sizes) THEN p + 1 ELSE up.back]

\* request() returns an envelope of the cyclic upstream inside a traversal:
\* the page is collected and the request for next_page is scheduled
RespondPageCycle(c) ==
  /\ settles(c, Ok)
  /\ trav[c].op = "fetchAllData"
  /\ Len(trav[c].reqs) < MaxRequests
  /\ LET env == cyclicEnvelope(upstream, req[c].url)
         f == fetchAllPages(trav[c].allData, env)
     IN
     /\ lastReq' = [client |-> c, url |-> req[c].url,
                    log |-> Append(req[c].log, Ok), sentAt |-> req[c].sentAt,
                    res |-> [ok |-> TRUE, data |-> env]]
     /\ f.nextUrl # 0
     /\ trav' = [trav EXCEPT
                   ![c].allData = f.allData,
                   ![c].reqs = Append(@, [url |-> f.nextUrl,
                                          params |-> f.queryParams]),
                   ![c].envs = Append(@, env)]
     /\ submit(c, f.nextUrl)
  /\ running' = 0
  /\ UNCHANGED <<now, ticks, cacheVars, nextRequest, upstream, starts, faults>>

\* one traversal; an attempt may fail, which makes the call retry, return
\* (404) or raise
NextCycle ==
  \/ CallFetchAllData(1)
  \/ StartJob
  \/ \E o \in Outcomes : RespondRetry(1, o)
  \/ Retry(1)
  \/ RespondPageCycle(1)
  \/ \E o \in Outcomes \ {Ok} : RespondPageLast(1, o)
  \/ \E o \in Outcomes \ {Ok} : RespondPageRaise(1, o)
  \/ AdvanceClient(MaxTime, MaxTime)

SpecCycle == InitClient(CyclicChains, PageFaults) /\ [][NextCycle]_vars

-----------------------------------------------------------------------------
(* KoladaClient.batchRequest and the chunking helper of the analysis tools *)

MAX_BATCH_SIZE == 25
MaxIds == 57
BatchFaults == 1

\* strings are sequences of characters
DigitChars == <<"0", "1", "2", "3", "4", "5", "6", "7", "8", "9">>
\* the separator that join inserts
Comma == <<",">>
\* the i-th identifier of a list: "N00001", "N00002", ...
kpiIdNo(i) ==
  <<"N", "0", "0", "0", DigitChars[(i \div 10) + 1], DigitChars[(i % 10) + 1]>>
\* the identifier lists handed to batchRequest: empty, one id, a full chunk,
\* one more than a chunk, two full chunks, two chunks and a partial one
IdLists ==
  {[i \in 1..n |-> kpiIdNo(i)] :
     n \in {0, 1, MAX_BATCH_SIZE, MAX_BATCH_SIZE + 1, 2 * MAX_BATCH_SIZE, MaxIds}}
\* the most records the API puts in one response page
PageLimits == {10, MAX_BATCH_SIZE}

\* Array.prototype.slice(i, j) for 0 <= i <= j: elements i .. j-1, cut at the end
slice(array, i, j) ==
  SubSeq(array, i + 1, IF j < Len(array) THEN j ELSE Len(array))

RECURSIVE chunkLoop(_, _, _)
\* for (let i = ..; i < array.length; i += size) chunks.push(array.slice(i, i + size))
chunkLoop(array, size, i) ==
  IF i < Len(array)
    THEN <<slice(array, i, i + size)>> \o chunkLoop(array, size, i + size)
    ELSE <<>>

chunkArray(array, size) == chunkLoop(array, size, 0)

\* a split that forgets the trailing partial chunk
batches_dropPartial(ids) ==
  SelectSeq(chunkLoop(ids, MAX_BATCH_SIZE, 0), LAMBDA b : Len(b) = MAX_BATCH_SIZE)

\* the batches array built by batchRequest
batches(ids) == chunkLoop(ids, MAX_BATCH_SIZE, 0)

RECURSIVE join(_)
\* batch.join(','), as the sequence of its pieces: the identifiers with a
\* separator between neighbours
join(batch) ==
  IF Len(batch) = 0 THEN <<>>
  ELSE IF Len(batch) = 1 THEN <<batch[1]>>
  ELSE <<batch[1], Comma>> \o join(Tail(batch))

\* the identifiers the API reads out of a comma-separated parameter
split(param) == SelectSeq(param, LAMBDA x : x # Comma)

\* the record the API holds for an identifier
record(id) == [id |-> id]

\* well-formed identifiers for which the API holds no record: a KPI and a
\* KPI group
Missing == {<<"U", "0", "0", "0", "0", "1">>, <<"G", "9">>}

\* the first page answering a request whose identifier parameter is param:
\* the records of the identifiers that have one, at most limit of them, and a
\* link to a second page when there are more
batchEnvelope(limit, param) ==
  LET ids == SelectSeq(split(param), LAMBDA x : x \notin Missing)
      n == IF Len(ids) < limit THEN Len(ids) ELSE limit
  IN [values |-> [j \in 1..n |-> record(ids[j])], count |-> n,
      next_page |-> IF Len(ids) > limit THEN 2 ELSE 0]

\* a tool calls koladaClient.batchRequest(endpoint, ids): the batches are
\* built and the first one is requested; without batches the loop body never
\* runs and the empty results are returned
CallBatchRequest(c, ids) ==
  /\ trav[c] = NoCall
  /\ LET bs == batches(ids) IN
       IF bs = <<>>
         THEN /\ trav' = [trav EXCEPT ![c] =
                            [pc |-> "done", op |-> "batchRequest",
                             allData |-> <<>>, e404 |-> 0, ids |-> ids,
                             batches |-> bs, sent |-> <<>>, resps |-> <<>>]]
              /\ UNCHANGED <<req, queue>>
         ELSE /\ submit(c, join(bs[1]))
              /\ trav' = [trav EXCEPT ![c] =
                            [pc |-> "active", op |-> "batchRequest",
                             allData |-> <<>>, e404 |-> 0, ids |-> ids,
                             batches |-> bs, sent |-> <<join(bs[1])>>,
                             resps |-> <<>>]]
  /\ UNCHANGED <<now, ticks, cacheVars, running, nextRequest, upstream,
                 starts, lastReq, faults>>

\* request() as batchRequest sees it settle: the API's first page for the
\* identifier parameter, or what the catch block makes of a failure
settledBatch(c, o) ==
  [client |-> c, url |-> req[c].url, log |-> Append(req[c].log, o),
   res |-> IF o = Ok
             THEN [ok |-> TRUE, data |-> batchEnvelope(upstream.limit, req[c].url)]
             ELSE request_settle(upstream, req[c].url, o)]

\* results.push(...response.values) for a batch that is not the last: the
\* loop goes on to request the next batch
RespondBatchNext(c, o) ==
  /\ settles(c, o)
  /\ trav[c].op = "batchRequest"
  /\ Len(trav[c].sent) < Len(trav[c].batches)
  /\ LET s == settledBatch(c, o)
         nxt == join(trav[c].batches[Len(trav[c].sent) + 1])
     IN
     /\ s.res.ok
     /\ lastReq' = s
     /\ trav' = [trav EXCEPT ![c].allData = @ \o s.res.data.values,
                             ![c].resps = Append(@, s.res.data.values),
                             ![c].sent = Append(@, nxt),
                             ![c].e404 = IF o.status = 404 THEN 1 ELSE @]
     /\ submit(c, nxt)
  /\ running' = 0
  /\ faults' = IF o = Ok THEN faults ELSE faults - 1
  /\ UNCHANGED <<now, ticks, cacheVars, nextRequest, upstream, starts>>

\* results.push(...response.values) for the last batch: batchRequest returns
RespondBatchLast(c, o) ==
  /\ settles(c, o)
  /\ trav[c].op = "batchRequest"
  /\ Len(trav[c].sent) = Len(trav[c].batches)
  /\ LET s == settledBatch(c, o) IN
     /\ s.res.ok
     /\ lastReq' = s
     /\ trav' = [trav EXCEPT ![c].pc = "done",
                             ![c].allData = @ \o s.res.data.values,
                             ![c].resps = Append(@, s.res.data.values),
                             ![c].e404 = IF o.status = 404 THEN 1 ELSE @]
  /\ req' = [req EXCEPT ![c] = NoReq]
  /\ running' = 0
  /\ faults' = IF o = Ok THEN faults ELSE faults - 1
  /\ UNCHANGED <<now, ticks, cacheVars, queue, nextRequest, upstream, starts>>

\* request() throws for a batch: batchRequest rejects, the results collected
\* so far are lost with it
RespondBatchRaise(c, o) ==
  /\ settles(c, o)
  /\ trav[c].op = "batchRequest"
  /\ LET s == settledBatch(c, o) IN
     /\ ~s.res.ok
     /\ lastReq' = s
  /\ trav' = [trav EXCEPT ![c].pc = "raised"]
  /\ req' = [req EXCEPT ![c] = NoReq]
  /\ running' = 0
  /\ faults' = faults - 1
  /\ UNCHANGED <<now, ticks, cacheVars, queue, nextRequest, upstream, starts>>

\* a success, a 404 that request() turns into an empty envelope, a failure
\* that is not retried
BatchOutcomes == {Ok, HttpError(404), HttpError(400)}

\* concurrent tools splitting identifier lists into batches
InitBatch == InitClient({[limit |-> l] : l \in PageLimits}, BatchFaults)

NextBatch ==
  \/ \E c \in Callers, ids \in IdLists : CallBatchRequest(c, ids)
  \/ StartJob
  \/ \E c \in Callers, o \in BatchOutcomes : RespondBatchNext(c, o)
  \/ \E c \in Callers, o \in BatchOutcomes : RespondBatchLast(c, o)
  \/ \E c \in Callers, o \in BatchOutcomes : RespondBatchRaise(c, o)
  \/ AdvanceClient(MaxTime, MaxTime)

SpecBatch == InitBatch /\ [][NextBatch]_vars

-----------------------------------------------------------------------------
(* The KPI tools get_kpi and get_kpis, their validators, handleApiError *)

GET_KPIS_MAX == 25
ToolFaults == 4

\* error objects: mcp tells an McpError from a plain Error, kind is the
\* KoladaErrorType of an McpError, status stands for error.response?.status
\* and code for error.code (0 and "none" when undefined)
NoError ==
  [mcp |-> FALSE, kind |-> "none", message |-> "none", status |-> 0,
   code |-> "none", details |-> [none |-> TRUE]]

\* the details of an McpError: a suggestion for the caller, or the error it
\* was made from
Suggestion(text) == [suggestion |-> text]

createMcpError(type, message, details) ==
  [mcp |-> TRUE, kind |-> type, message |-> message, status |-> 0,
   code |-> "none", details |-> details]

\* the plain Error that request() throws in its catch block: the message
\* starts with the text of res.error, nothing else of the axios error is kept
requestError(res) ==
  [mcp |-> FALSE, kind |-> "Error", message |-> res.error, status |-> 0,
   code |-> "none", details |-> [none |-> TRUE]]

\* /^[NU]\d{5}$/.test(kpiId)
kpiPattern(kpiId) ==
  /\ Len(kpiId) = 6
  /\ kpiId[1] \in {"N", "U"}
  /\ \A i \in 2..6 : \E d \in DOMAIN DigitChars : kpiId[i] = DigitChars[d]

\* validateKpiId: the error it throws, NoError when it returns
validateKpiId(kpiId) ==
  IF ~kpiPattern(kpiId)
    THEN createMcpError("VALIDATION_ERROR", "INVALID_KPI_ID_FORMAT",
                        Suggestion("INVALID_KPI_ID_FORMAT"))
    ELSE NoError

\* a batch limit that is reached one identifier early
validateBatchSize_atLimit(ids, maxSize) ==
  IF Len(ids) >= maxSize
    THEN createMcpError("VALIDATION_ERROR", "TOO_MANY_IDS",
                        Suggestion("TOO_MANY_IDS"))
    ELSE NoError

\* validateBatchSize: the error it throws, NoError when it returns
validateBatchSize(ids, maxSize) ==
  IF Len(ids) > maxSize
    THEN createMcpError("VALIDATION_ERROR", "TOO_MANY_IDS",
                        Suggestion("TOO_MANY_IDS"))
    ELSE NoError

\* handleApiError: the McpError it throws for what the handler caught
handleApiError(error) ==
  IF error.mcp THEN error
  ELSE IF error.status = 404
    THEN createMcpError("NOT_FOUND", "Resource not found",
                        [originalError |-> TRUE])
  ELSE IF error.status = 429
    THEN createMcpError("RATE_LIMITED", "API_RATE_LIMITED",
                        Suggestion("API_RATE_LIMITED"))
  ELSE IF error.code \in {"ECONNREFUSED", "ETIMEDOUT"}
    THEN createMcpError("NETWORK_ERROR", "NETWORK_ERROR",
                        Suggestion("NETWORK_ERROR"))
  ELSE createMcpError("API_ERROR", error.message, [originalError |-> TRUE])

\* the first statements of get_kpis: validateBatchSize(kpi_ids, 25), then
\* validateKpiId for each id in order; the first error thrown, if any
get_kpis_validate(kpi_ids) ==
  IF validateBatchSize(kpi_ids, GET_KPIS_MAX) # NoError
    THEN validateBatchSize(kpi_ids, GET_KPIS_MAX)
  ELSE IF \E i \in DOMAIN kpi_ids : validateKpiId(kpi_ids[i]) # NoError
    THEN validateKpiId(
           kpi_ids[Min({i \in DOMAIN kpi_ids : validateKpiId(kpi_ids[i]) # NoError})])
  ELSE NoError

\* the arguments the tools are called with: well-formed ids, and '12345',
\* 'N123', 'X15033', ''
MalformedKpiIds ==
  {<<"1", "2", "3", "4", "5">>, <<"N", "1", "2", "3">>,
   <<"X", "1", "5", "0", "3", "3">>, <<>>}
KpiIdArgs == {kpiIdNo(1), <<"U", "0", "0", "0", "0", "1">>} \cup MalformedKpiIds
\* group ids: one the API knows, one it does not
GroupIdArgs == {<<"G", "1">>, <<"G", "9">>}
KpiIdsArgs ==
  {[i \in 1..n |-> kpiIdNo(i)] : n \in {0, 1, GET_KPIS_MAX, GET_KPIS_MAX + 1}}
    \cup {<<kpiIdNo(1), <<"N", "1", "2", "3">>, kpiIdNo(2)>>}
    \cup {[i \in 1..(GET_KPIS_MAX + 1) |-> <<"X", "1", "5", "0", "3", "3">>]}

\* the state of a tool call: like a client call, with the arguments, the
\* attempts of the request that failed and the error the handler throws
toolCall(pc, op, args, bs, error) ==
  [pc |-> pc, op |-> op, allData |-> <<>>, e404 |-> 0, ids |-> args,
   batches |-> bs,
   sent |-> IF pc = "active" /\ bs # <<>> THEN <<join(bs[1])>> ELSE <<>>,
   resps |-> <<>>, log |-> <<>>, error |-> error]

\* get_kpi up to its first await: validateKpiId, then request(`/kpi/${kpi_id}`);
\* a validation error goes through the catch block and handleApiError
CallGetKpi(c, kpi_id) ==
  /\ trav[c] = NoCall
  /\ IF validateKpiId(kpi_id) # NoError
       THEN /\ trav' = [trav EXCEPT ![c] =
                          toolCall("raised", "get_kpi", <<kpi_id>>, <<>>,
                                   handleApiError(validateKpiId(kpi_id)))]
            /\ UNCHANGED <<req, queue>>
       ELSE /\ submit(c, join(<<kpi_id>>))
            /\ trav' = [trav EXCEPT ![c] =
                          toolCall("active", "get_kpi", <<kpi_id>>,
                                   <<<<kpi_id>>>>, NoError)]
  /\ UNCHANGED <<now, ticks, cacheVars, running, nextRequest, upstream,
                 starts, lastReq, faults>>

\* get_kpi after request() settled: empty values throw NOT_FOUND, a thrown
\* Error is handed to handleApiError, otherwise values[0] is the result
RespondGetKpi(c, o) ==
  /\ settles(c, o)
  /\ trav[c].op = "get_kpi"
  /\ LET s == settledBatch(c, o)
         error == IF ~s.res.ok THEN handleApiError(requestError(s.res))
                  ELSE IF Len(s.res.data.values) = 0
                    THEN handleApiError(
                           createMcpError("NOT_FOUND", "KPI_NOT_FOUND",
                                          Suggestion("KPI_NOT_FOUND")))
                  ELSE NoError
     IN
     /\ lastReq' = s
     /\ trav' = [trav EXCEPT ![c].pc = IF error = NoError THEN "done" ELSE "raised",
                             ![c].allData = IF error = NoError
                                              THEN <<s.res.data.values[1]>> ELSE <<>>,
                             ![c].e404 = IF o.status = 404 THEN 1 ELSE 0,
                             ![c].log = s.log,
                             ![c].error = error]
  /\ req' = [req EXCEPT ![c] = NoReq]
  /\ running' = 0
  /\ faults' = IF o = Ok THEN faults ELSE faults - 1
  /\ UNCHANGED <<now, ticks, cacheVars, queue, nextRequest, upstream, starts>>

\* get_kpi_group up to its first await: request(`/kpi_groups/${group_id}`),
\* without any validation of the id
CallGetKpiGroup(c, group_id) ==
  /\ trav[c] = NoCall
  /\ submit(c, join(<<group_id>>))
  /\ trav' = [trav EXCEPT ![c] =
                toolCall("active", "get_kpi_group", <<group_id>>,
                         <<<<group_id>>>>, NoError)]
  /\ UNCHANGED <<now, ticks, cacheVars, running, nextRequest, upstream,
                 starts, lastReq, faults>>

\* get_kpi_group after request() settled: empty values throw NOT_FOUND, a
\* thrown Error is handed to handleApiError, otherwise values[0] is the result
RespondGetKpiGroup(c, o) ==
  /\ settles(c, o)
  /\ trav[c].op = "get_kpi_group"
  /\ LET s == settledBatch(c, o)
         error == IF ~s.res.ok THEN handleApiError(requestError(s.res))
                  ELSE IF Len(s.res.data.values) = 0
                    THEN handleApiError(
                           createMcpError("NOT_FOUND", "GROUP_NOT_FOUND",
                                          Suggestion("GROUP_NOT_FOUND")))
                  ELSE NoError
     IN
     /\ lastReq' = s
     /\ trav' = [trav EXCEPT ![c].pc = IF error = NoError THEN "done" ELSE "raised",
                             ![c].allData = IF error = NoError
                                              THEN <<s.res.data.values[1]>> ELSE <<>>,
                             ![c].e404 = IF o.status = 404 THEN 1 ELSE 0,
                             ![c].log = s.log,
                             ![c].error = error]
  /\ req' = [req EXCEPT ![c] = NoReq]
  /\ running' = 0
  /\ faults' = IF o = Ok THEN faults ELSE faults - 1
  /\ UNCHANGED <<now, ticks, cacheVars, queue, nextRequest, upstream, starts>>

\* get_kpis up to its first await: the validators, then batchRequest('/kpi',
\* kpi_ids), which requests the first batch if there is one
CallGetKpis(c, kpi_ids) ==
  /\ trav[c] = NoCall
  /\ IF get_kpis_validate(kpi_ids) # NoError
       THEN /\ trav' = [trav EXCEPT ![c] =
                          toolCall("raised", "get_kpis", kpi_ids, <<>>,
                                   handleApiError(get_kpis_validate(kpi_ids)))]
            /\ UNCHANGED <<req, queue>>
       ELSE IF batches(kpi_ids) = <<>>
         THEN /\ trav' = [trav EXCEPT ![c] =
                            toolCall("done", "get_kpis", kpi_ids, <<>>, NoError)]
              /\ UNCHANGED <<req, queue>>
         ELSE /\ submit(c, join(batches(kpi_ids)[1]))
              /\ trav' = [trav EXCEPT ![c] =
                            toolCall("active", "get_kpis", kpi_ids,
                                     batches(kpi_ids), NoError)]
  /\ UNCHANGED <<now, ticks, cacheVars, running, nextRequest, upstream,
                 starts, lastReq, faults>>

\* get_kpis after a request of its batchRequest settled: the loop goes on,
\* or batchRequest returns, or the thrown Error is handed to handleApiError
RespondGetKpis(c, o) ==
  /\ settles(c, o)
  /\ trav[c].op = "get_kpis"
  /\ LET s == settledBatch(c, o)
         more == Len(trav[c].sent) < Len(trav[c].batches)
     IN
     /\ lastReq' = s
     /\ IF ~s.res.ok
          THEN /\ trav' = [trav EXCEPT ![c].pc = "raised",
                                       ![c].log = s.log,
                                       ![c].error = handleApiError(requestError(s.res))]
               /\ req' = [req EXCEPT ![c] = NoReq]
               /\ UNCHANGED queue
        ELSE IF more
          THEN /\ trav' = [trav EXCEPT
                             ![c].allData = @ \o s.res.data.values,
                             ![c].resps = Append(@, s.res.data.values),
                             ![c].sent = Append(@, join(trav[c].batches[Len(trav[c].sent) + 1])),
                             ![c].e404 = IF o.status = 404 THEN 1 ELSE @]
               /\ submit(c, join(trav[c].batches[Len(trav[c].sent) + 1]))
        ELSE /\ trav' = [trav EXCEPT
                           ![c].pc = "done",
                           ![c].allData = @ \o s.res.data.values,
                           ![c].resps = Append(@, s.res.data.values),
                           ![c].e404 = IF o.status = 404 THEN 1 ELSE @]
             /\ req' = [req EXCEPT ![c] = NoReq]
             /\ UNCHANGED queue
  /\ running' = 0
  /\ faults' = IF o = Ok THEN faults ELSE faults - 1
  /\ UNCHANGED <<now, ticks, cacheVars, nextRequest, upstream, starts>>

\* a success, a 404, a rate limit, a rejected request, a refused and a
\* timed-out connection
ToolOutcomes ==
  {Ok, HttpError(404), HttpError(429), HttpError(400),
   NetError("ECONNREFUSED"), NetError("ECONNABORTED")}

\* concurrent calls of the two tools against an upstream that may fail every
\* attempt of one request
InitTools == InitClient({[limit |-> l] : l \in PageLimits}, ToolFaults)

NextTools ==
  \/ \E c \in Callers, kpi_id \in KpiIdArgs : CallGetKpi(c, kpi_id)
  \/ \E c \in Callers, kpi_ids \in KpiIdsArgs : CallGetKpis(c, kpi_ids)
  \/ \E c \in Callers, group_id \in GroupIdArgs : CallGetKpiGroup(c, group_id)
  \/ StartJob
  \/ \E c \in Callers, o \in ToolOutcomes : RespondRetry(c, o)
  \/ \E c \in Callers : Retry(c)
  \/ \E c \in Callers, o \in ToolOutcomes : RespondGetKpi(c, o)
  \/ \E c \in Callers, o \in ToolOutcomes : RespondGetKpis(c, o)
  \/ \E c \in Callers, o \in ToolOutcomes : RespondGetKpiGroup(c, o)
  \/ AdvanceClient(MaxTime, MaxTime)

SpecTools == InitTools /\ [][NextTools]_vars

-----------------------------------------------------------------------------
(* DataCache.generateKey *)

MaxParams == 3

\* UTF-16 code units of the characters of parameter names
CodeUnits == ("a" :> 97) @@ ("b" :> 98)

RECURSIVE lessThan(_, _)
\* the order of Array.prototype.sort() without a comparator: strings by code
\* units, a proper prefix first
lessThan(x, y) ==
  IF x = <<>> THEN y # <<>>
  ELSE IF y = <<>> THEN FALSE
  ELSE IF x[1] = y[1] THEN lessThan(Tail(x), Tail(y))
  ELSE CodeUnits[x[1]] < CodeUnits[y[1]]

RECURSIVE insert(_, _)
\* k put at its place in a sorted array
insert(sorted, k) ==
  IF sorted = <<>> THEN <<k>>
  ELSE IF lessThan(k, Head(sorted)) THEN <<k>> \o sorted
  ELSE <<Head(sorted)>> \o insert(Tail(sorted), k)

RECURSIVE sort(_)
\* keys.sort()
sort(keys) ==
  IF keys = <<>> THEN <<>> ELSE insert(sort(Tail(keys)), Head(keys))

\* parameter names "a", "b", "ab"; values 1 and "1"
ParamNames == {<<"a">>, <<"b">>, <<"a", "b">>}
ParamValues == {[num |-> 1], [str |-> <<"1">>]}
Endpoints == {<<"/", "k">>, <<"/", "m">>}

\* parameter objects as their properties in insertion order
ParamMaps ==
  UNION {{p \in [1..n -> ParamNames \X ParamValues] :
            \A i, j \in 1..n : i # j => p[i][1] # p[j][1]} : n \in 0..MaxParams}

\* Object.keys(params)
ObjectKeys(params) == [i \in DOMAIN params |-> params[i][1]]

\* params[key]
lookup(params, key) ==
  params[CHOOSE i \in DOMAIN params : params[i][1] = key][2]

\* JSON.stringify of a one-digit number or a string without escapes
JSON_stringify(v) ==
  IF "num" \in DOMAIN v THEN <<DigitChars[v.num + 1]>>
  ELSE <<"\"">> \o v.str \o <<"\"">>

RECURSIVE joinAmp(_)
\* parts.join('&')
joinAmp(parts) ==
  IF parts = <<>> THEN <<>>
  ELSE IF Len(parts) = 1 THEN parts[1]
  ELSE parts[1] \o <<"&">> \o joinAmp(Tail(parts))

\* !params || Object.keys(params).length === 0; absent params and {} are
\* both the empty sequence
\* (a test that never finds the parameters missing)
noParams_never(params) == FALSE

noParams(params) == Len(ObjectKeys(params)) = 0

\* a key builder that keeps the insertion order
generateKey_unsorted(endpoint, params) ==
  IF noParams(params) THEN endpoint
  ELSE endpoint \o <<"?">> \o
       joinAmp([i \in DOMAIN params |->
                  ObjectKeys(params)[i] \o <<"=">>
                    \o JSON_stringify(lookup(params, ObjectKeys(params)[i]))])

\* DataCache.generateKey(endpoint, params)
generateKey(endpoint, params) ==
  IF noParams(params) THEN endpoint
  ELSE endpoint \o <<"?">> \o
       joinAmp([i \in DOMAIN params |->
                  sort(ObjectKeys(params))[i] \o <<"=">>
                    \o JSON_stringify(lookup(params, sort(ObjectKeys(params))[i]))])

\* a caller builds a key, and then a second one that is remembered next to
\* the first
GenerateKey(endpoint, params) ==
  /\ last.op = "generateKey" => last.first
  /\ last' = [op |-> "generateKey", endpoint |-> endpoint, params |-> params,
              first |-> last.op # "generateKey",
              key |-> generateKey(endpoint, params),
              prev |-> IF last.op = "generateKey"
                         THEN [endpoint |-> last.endpoint, params |-> last.params,
                               key |-> last.key]
                         ELSE [endpoint |-> endpoint, params |-> params,
                               key |-> generateKey(endpoint, params)]]
  /\ ret' = Val(generateKey(endpoint, params))
  /\ UNCHANGED <<now, ticks, cache, defaultTTL, unswept, calls, clientVars>>

\* key building on its own: it reads and writes no state of the cache
InitKey == InitClient({<<>>}, 0)

NextKey == \E endpoint \in Endpoints, params \in ParamMaps :
             GenerateKey(endpoint, params)

SpecKey == InitKey /\ [][NextKey]_vars

-----------------------------------------------------------------------------
(* KOLADA_CONFIG: the rate settings read from the environment *)

\* process.env.KOLADA_RATE_LIMIT: unset, or a string of digits
RateLimitEnvs == {Undefined, Val(<<"1">>), Val(<<"5">>), Val(<<"1", "0">>)}

RECURSIVE parseInt(_)
\* parseInt of a non-empty string of digits
parseInt(str) ==
  LET digit(ch) == (CHOOSE d \in DOMAIN DigitChars : DigitChars[d] = ch) - 1 IN
  IF Len(str) = 1 THEN digit(str[1])
  ELSE parseInt(SubSeq(str, 1, Len(str) - 1)) * 10 + digit(str[Len(str)])

\* the two rate entries of KOLADA_CONFIG for a value of KOLADA_RATE_LIMIT:
\* the rate is parsed from the environment, the interval is a literal
KOLADA_CONFIG(env) ==
  [MAX_REQUESTS_PER_SECOND |-> parseInt(IF env = Undefined THEN <<"5">> ELSE env.v),
   MIN_REQUEST_INTERVAL |-> MIN_REQUEST_INTERVAL]

\* the server as started under each setting of KOLADA_RATE_LIMIT: the
\* module is loaded, the singleton client builds its limiter with
\* minTime: KOLADA_CONFIG.MIN_REQUEST_INTERVAL
InitConfig ==
  /\ now = 0
  /\ ticks = 0
  /\ cache = [k \in Keys |-> NoEntry]
  /\ defaultTTL = DEFAULT_TTL
  /\ unswept = Unswept0
  /\ calls = [c \in Callers |-> Idle]
  /\ \E env \in RateLimitEnvs :
       last = [op |-> "config", env |-> env, config |-> KOLADA_CONFIG(env)]
  /\ ret = Undefined
  /\ queue = <<>>
  /\ running = 0
  /\ nextRequest = 0
  /\ req = [c \in Callers |-> NoReq]
  /\ trav = [c \in Callers |-> NoCall]
  /\ upstream = <<2>>
  /\ starts = <<>>
  /\ lastReq = NoReq
  /\ faults = 0

\* concurrent tools issuing single requests through the limiter
NextConfig ==
  \/ \E c \in Callers : CallRequest(c)
  \/ StartJob
  \/ \E c \in Callers : RespondRequest(c, Ok)
  \/ \E d \in ClientDeltas : AdvanceClient(d, LimiterHorizon)

SpecConfig == InitConfig /\ [][NextConfig]_vars

-----------------------------------------------------------------------------
(* handleRPCRequest: the JSON-RPC entry point of the HTTP server *)

\* the JSON-RPC error code of every failure
INTERNAL_ERROR == -32603

\* the names in allTools and analysisPrompts, the uris of the resources
\* read through the cache
ToolNames == {Val("get_kpi"), Val("get_kpis")}
PromptNames == {Val("trend_analysis")}
CachedUris == {Val("kolada://municipalities"), Val("kolada://kpi-catalog")}

\* request.params: absent, null, and objects naming a tool, a prompt or a
\* resource that exists or not, with arguments the tool's schema accepts or not
RpcParams ==
  {Undefined, NULL}
    \cup {[name |-> n, arguments |-> a] :
            n \in ToolNames \cup PromptNames \cup {Val("nope")},
            a \in {Undefined, Val("accepted"), Val("rejected")}}
    \cup {[uri |-> u] :
            u \in CachedUris \cup {Val("kolada://api-info"), Val("kolada://nope")}}

\* the requests: method is one of the seven served, one that is not, or
\* absent; id is absent, a number or a string
RpcRequests ==
  [method : {Val("initialize"), Val("tools/list"), Val("tools/call"),
             Val("prompts/list"), Val("prompts/get"), Val("resources/list"),
             Val("resources/read"), Val("ping"), Undefined},
   id : {Undefined, Num(1), Val("a")},
   params : RpcParams]

\* what the awaited call (tool.handler, dataCache.getOrFetch) settles with:
\* a value, a thrown McpError or Error, a thrown value that is no Error
AwaitOutcomes ==
  {[settled |-> "resolved", value |-> Val("content")],
   [settled |-> "rejected",
    error |-> createMcpError("NOT_FOUND", "KPI_NOT_FOUND",
                             Suggestion("KPI_NOT_FOUND"))],
   [settled |-> "rejected", error |-> requestError([error |-> "API_ERROR"])],
   [settled |-> "rejected", error |-> Val("oops")]}

\* new Error(what): the TypeError of destructuring null, the ZodError of
\* inputSchema.parse, the Errors the switch throws itself
Error(what) == requestError([error |-> what])

\* obj.field of a params object, undefined when the object lacks the field
prop(obj, field) == IF field \in DOMAIN obj THEN obj[field] ELSE Undefined

\* a return or a throw of the try block
Returns(result) == [returned |-> TRUE, result |-> result]
Throws(error) == [returned |-> FALSE, error |-> error]

\* what an awaited call makes of the try block
awaited(h) == IF h.settled = "resolved" THEN Returns(h.value) ELSE Throws(h.error)

\* tool.inputSchema.parse(args): the parsed arguments, or a ZodError
inputSchema_parse(args) ==
  IF args = Val("accepted") THEN Returns(Val("validated"))
  ELSE Throws(Error("ZodError"))

\* await tool.handler(args) settling as h; the arguments the handler ran
\* with are kept in the outcome
handler(args, h) ==
  IF h.settled = "resolved"
    THEN [returned |-> TRUE, result |-> h.value, handler |-> args]
    ELSE [returned |-> FALSE, error |-> h.error, handler |-> args]

\* the arguments a tool handler ran with in the course of a call: none or one
invocations(body) ==
  IF "handler" \in DOMAIN body THEN <<body.handler>> ELSE <<>>

\* the try block of handleRPCRequest: the switch over method; params
\* defaults to {} when absent, and destructuring null throws
tryBlock(request, h) ==
  LET params == IF request.params = Undefined THEN [none |-> TRUE]
                ELSE request.params
      method == request.method
  IN
  IF method \in {Val("initialize"), Val("tools/list"), Val("prompts/list"),
                 Val("resources/list")}
    THEN Returns(method)
  ELSE IF method = Val("tools/call")
    THEN IF params = NULL THEN Throws(Error("TypeError"))
         ELSE IF prop(params, "name") \notin ToolNames
           THEN Throws(Error("Tool not found"))
         ELSE LET validatedArgs == inputSchema_parse(prop(params, "arguments")) IN
              IF ~validatedArgs.returned THEN validatedArgs
              ELSE handler(validatedArgs.result, h)
  ELSE IF method = Val("prompts/get")
    THEN IF params = NULL THEN Throws(Error("TypeError"))
         ELSE IF prop(params, "name") \notin PromptNames
           THEN Throws(Error("Prompt not found"))
         ELSE Returns(method)
  ELSE IF method = Val("resources/read")
    THEN IF params = NULL THEN Throws(Error("TypeError"))
         ELSE IF prop(params, "uri") \in CachedUris THEN awaited(h)
         ELSE IF prop(params, "uri") = Val("kolada://api-info") THEN Returns(method)
         ELSE Throws(Error("Resource not found"))
  ELSE Throws(Error("Unknown method"))

\* handleRPCRequest(request) when the call it awaits settles as h: the
\* response it resolves with, Thrown if it rejects
\* (an entry point whose switch is not wrapped in try/catch)
handleRPCRequest_noCatch(request, h) ==
  LET body == tryBlock(request, h) IN
  IF body.returned
    THEN [jsonrpc |-> "2.0", id |-> request.id, result |-> body.result,
          error |-> Undefined]
    ELSE Thrown

handleRPCRequest(request, h) ==
  LET body == tryBlock(request, h) IN
  IF body.returned
    THEN [jsonrpc |-> "2.0", id |-> request.id, result |-> body.result,
          error |-> Undefined]
    ELSE [jsonrpc |-> "2.0", id |-> request.id, result |-> Undefined,
          error |-> [code |-> INTERNAL_ERROR,
                     message |-> IF "message" \in DOMAIN body.error
                                   THEN body.error.message
                                   ELSE "Internal error"]]

\* POST /rpc: the server answers with what handleRPCRequest resolved with;
\* no request leaves anything behind for the next, so one is followed
HandleRPCRequest(request, h) ==
  /\ last = NoOp
  /\ ret' = handleRPCRequest(request, h)
  /\ last' = [op |-> "rpc", request |-> request, awaited |-> h,
              handler |-> invocations(tryBlock(request, h))]
  /\ UNCHANGED <<now, ticks, cache, defaultTTL, unswept, calls, clientVars>>

\* the CallToolRequestSchema handler of the MCP server (stdio and SSE): the
\* SDK has checked that params is an object with a name
callTool(request, h) ==
  IF request.params.name \notin ToolNames THEN Throws(Error("Unknown tool"))
  ELSE LET validatedArgs == inputSchema_parse(request.params.arguments) IN
       IF ~validatedArgs.returned THEN validatedArgs
       ELSE handler(validatedArgs.result, h)

CallTool(request, h) ==
  LET body == callTool(request, h) IN
  /\ last = NoOp
  /\ ret' = IF body.returned THEN body.result ELSE Thrown
  /\ last' = [op |-> "callTool", request |-> request, awaited |-> h,
              handler |-> invocations(body)]
  /\ UNCHANGED <<now, ticks, cache, defaultTTL, unswept, calls, clientVars>>

\* app.post('/rpc') of http-server.ts: the chain of ifs over request.method
\* inside try/catch; request.params is destructured as it came
postRpc(request, h) ==
  LET params == request.params
      method == request.method
      destructures == params \notin {Undefined, NULL}
  IN
  IF method \in {Val("initialize"), Val("tools/list"), Val("prompts/list"),
                 Val("resources/list")}
    THEN Returns(method)
  ELSE IF method = Val("tools/call")
    THEN IF ~destructures THEN Throws(Error("TypeError"))
         ELSE IF prop(params, "name") \notin ToolNames
           THEN Throws(Error("Tool not found"))
         ELSE handler(prop(params, "arguments"), h)
  ELSE IF method = Val("prompts/get")
    THEN IF ~destructures THEN Throws(Error("TypeError"))
         ELSE IF prop(params, "name") \notin PromptNames
           THEN Throws(Error("Prompt not found"))
         ELSE Returns(method)
  ELSE IF method = Val("resources/read")
    THEN IF ~destructures THEN Throws(Error("TypeError"))
         ELSE IF prop(params, "uri") \in CachedUris THEN awaited(h)
         ELSE IF prop(params, "uri") = Val("kolada://api-info") THEN Returns(method)
         ELSE Throws(Error("Resource not found"))
  ELSE Throws(Error("Unknown method"))

PostRpc(request, h) ==
  LET body == postRpc(request, h) IN
  /\ last = NoOp
  /\ ret' = IF body.returned
              THEN [jsonrpc |-> "2.0", id |-> request.id, result |-> body.result,
                    error |-> Undefined]
              ELSE [jsonrpc |-> "2.0", id |-> request.id, result |-> Undefined,
                    error |-> [code |-> INTERNAL_ERROR,
                               message |-> IF "message" \in DOMAIN body.error
                                             THEN body.error.message
                                             ELSE "Internal error"]]
  /\ last' = [op |-> "postRpc", request |-> request, awaited |-> h,
              handler |-> invocations(body)]
  /\ UNCHANGED <<now, ticks, cache, defaultTTL, unswept, calls, clientVars>>

\* the requests the SDK passes to the CallToolRequestSchema handler
CallToolRequests ==
  {r \in RpcRequests :
     /\ r.method = Val("tools/call")
     /\ r.params \notin {Undefined, NULL}
     /\ "name" \in DOMAIN r.params
     /\ r.params.name \in ToolNames \cup {Val("nope")}}

NextRpc ==
  \/ \E request \in RpcRequests, h \in AwaitOutcomes :
       HandleRPCRequest(request, h)
  \/ \E request \in RpcRequests, h \in AwaitOutcomes : PostRpc(request, h)
  \/ \E request \in CallToolRequests, h \in AwaitOutcomes : CallTool(request, h)

SpecRpc == InitClient({<<>>}, 0) /\ [][NextRpc]_vars

-----------------------------------------------------------------------------
(* Properties of the cache *)

\* C1 (cache freshness): whenever the entry stored under a key has
\* now - timestamp > ttl, get(key) returns null, also while the expired entry
\* is still physically in the map because no sweep has removed it.
C1_CacheFreshness ==
  /\ \A k \in Keys :
       (cache[k] # NoEntry /\ now - cache[k].timestamp > cache[k].ttl)
          => get(cache, k, now).ret = NULL
  /\ (last.op = "get" /\ last.found = "expired") => ret = NULL

\* a get has just read an entry that had expired and was still in the map
C1_Witness ==
  /\ last.op = "get"
  /\ last.found = "expired"
  /\ ret = NULL

\* the time span the claim's "within ttl" refers to
withinTTL(ttl) == IF ttl = NoTTL THEN defaultTTL ELSE ttl[1]

\* C2 (cache hit suppresses the producer): when getOrFetch(k, producer, ttl)
\* has just fetched and returned a value, whatever that value is, the next
\* getOrFetch(k, producer, ttl) made within ttl does not invoke the producer
\* and returns the same value.
C2_HitSuppressesProducer ==
  [][\A k \in Keys, ttl \in TTLArgs :
       ( /\ last.op = "getOrFetch" /\ last.fetched /\ ret # Thrown
         /\ last.key = k /\ last.ttl = ttl
         /\ now - last.time <= withinTTL(ttl)
         /\ GetOrFetch(1, k, ttl) )
       => (calls' = calls /\ ret' = ret)]_vars

\* C3 (miss stores under the given ttl): when the producer of a missed
\* getOrFetch(key, producer, ttl) resolves, the result is stored under key
\* with the caller's ttl for every ttl passed, with the default only when no
\* ttl was passed, stamped with the current time, and is returned.
C3_MissStoresGivenTTL ==
  [][\A v \in Values :
       FetcherResolves(1, v)
       => /\ cache'[calls[1].key] =
               [data |-> v, timestamp |-> now,
                ttl |-> IF calls[1].ttl = NoTTL THEN defaultTTL
                        ELSE calls[1].ttl[1]]
          /\ ret' = v]_vars

\* C16 (concurrent misses are not deduplicated): a caller whose getOrFetch
\* finds no live entry under the key while other callers' producers for that
\* key are still running invokes its own producer and leaves theirs alone;
\* each producer's result is returned to its own caller, and once stored the
\* key holds that result as its one entry, live.
C16_ConcurrentMisses ==
  [][/\ \A c \in Callers, k \in Keys, ttl \in TTLArgs :
          ( /\ GetOrFetch(c, k, ttl)
            /\ found(cache, k, now) # "live"
            /\ \E d \in Callers \ {c} : calls[d] # Idle /\ calls[d].key = k )
          => /\ calls'[c] = [pc |-> "fetching", key |-> k, ttl |-> ttl]
             /\ \A d \in Callers \ {c} : calls'[d] = calls[d]
     /\ \A c \in Callers, v \in Values :
          FetcherResolves(c, v)
          => /\ ret' = v
             /\ cache'[calls[c].key] # NoEntry
             /\ cache'[calls[c].key].data = v
             /\ found(cache', calls[c].key, now) = "live"
             /\ \A d \in Callers \ {c} : calls'[d] = calls[d]
             /\ \A k \in Keys \ {calls[c].key} : cache'[k] = cache[k]]_vars

\* the producers of both callers are running for the same key, after each
\* caller missed
C16_Witness ==
  /\ \A c \in Callers : calls[c] # Idle /\ calls[c].key = "k1"
  /\ cache["k1"] = NoEntry

\* C36 (the last completion wins, stamped at completion): whenever a
\* producer resolves, the key holds that producer's result, whatever another
\* producer that completed earlier had stored; the entry's timestamp is the
\* instant of the completion, and a get returns the result up to and
\* including ttl after that instant (the default ttl when none was passed).
C36_LastCompletionWins ==
  [][\A c \in Callers, v \in Values :
       FetcherResolves(c, v)
       => LET k == calls[c].key IN
          /\ cache'[k] # NoEntry
          /\ cache'[k].data = v
          /\ cache'[k].timestamp = now
          /\ \A t \in {0, withinTTL(calls[c].ttl)} :
               get(cache', k, now + t).ret = v]_vars

\* two callers missed the key together; one producer completed with "a",
\* and while "a" was live the other completed with "b", 50 ms after the
\* calls: the key holds "b", stamped 50
C36_Witness ==
  /\ last.op = "getOrFetch" /\ last.fetched /\ last.key = "k1"
  /\ ret = Val("b")
  /\ last.prior = Val("a")
  /\ now = 50
  /\ cache["k1"].data = Val("b") /\ cache["k1"].timestamp = 50

\* C17 (janitor sweep): cleanup() removes every entry whose age exceeds its
\* ttl and no other, returns the number of entries it removed, and leaves
\* every surviving entry as it was.
C17_SweepRemovesExpired ==
  [][CallCleanup =>
       /\ \A k \in Keys :
            /\ (cache[k] # NoEntry /\ now - cache[k].timestamp > cache[k].ttl)
                 => cache'[k] = NoEntry
            /\ (cache[k] # NoEntry /\ now - cache[k].timestamp <= cache[k].ttl)
                 => cache'[k] = cache[k]
            /\ cache[k] = NoEntry => cache'[k] = NoEntry
       /\ ret' = Num(Cardinality({k \in Keys : cache[k] # NoEntry /\ cache'[k] = NoEntry}))]_vars

\* a sweep has just removed one expired entry and kept an entry whose age
\* equals its ttl
C17_Witness ==
  /\ last.op = "cleanup"
  /\ ret = Num(1)
  /\ cache["k1"] = NoEntry /\ unswept.cache["k1"] # NoEntry
  /\ cache["k2"] # NoEntry /\ now - cache["k2"].timestamp = cache["k2"].ttl

\* C18 (janitor independence), as claimed: after any sequence of calls and
\* clock advances, the cache that was swept at arbitrary points and the same
\* cache never swept have returned the same value from the last get or
\* getOrFetch, have the same producer running, and report the same getStats
\* but for total and expired.
C18_JanitorIndependence ==
  /\ last.op \in {"get", "getOrFetch"} => ret = unswept.ret
  /\ calls[1] = unswept.calls
  /\ getStats(cache, now).valid = getStats(unswept.cache, now).valid
  /\ getStats(cache, now).size_bytes = getStats(unswept.cache, now).size_bytes

\* C18, amended: the swept and the never swept cache return the same values
\* from get and getOrFetch, invoke the producer at the same calls, and report
\* the same valid count; total, expired and size_bytes of getStats may differ.
C18_JanitorIndependenceAmended ==
  /\ last.op \in {"get", "getOrFetch"} => ret = unswept.ret
  /\ calls[1] = unswept.calls
  /\ getStats(cache, now).valid = getStats(unswept.cache, now).valid

\* a get has just returned a live payload from both caches while the swept
\* one has lost an expired entry that the other still holds
C18_Witness ==
  /\ last.op = "get" /\ last.found = "live"
  /\ ret = unswept.ret /\ ret = Val("a")
  /\ \E k \in Keys : cache[k] = NoEntry /\ unswept.cache[k] # NoEntry
  /\ getStats(cache, now).total < getStats(unswept.cache, now).total

\* C19 (set overwrites): set(key, value, ttl) stores value under key with
\* the time of the call as creation time, whatever was stored before; a get
\* of the key right afterwards returns value; no other key's entry changes.
C19_SetOverwrites ==
  [][\A k \in Keys, v \in Values, ttl \in TTLArgs :
       Set(k, v, ttl)
       => /\ cache'[k] # NoEntry
          /\ cache'[k].data = v
          /\ cache'[k].timestamp = now
          /\ get(cache', k, now).ret = v
          /\ \A j \in Keys \ {k} : cache'[j] = cache[j]]_vars

\* a set has just replaced a live entry, at a later time than the other
\* key's entry was stored
C19_Witness ==
  /\ last.op = "set" /\ last.prior = "live"
  /\ cache[last.key] # NoEntry
  /\ cache[last.key].timestamp = now
  /\ \E j \in Keys \ {last.key} : cache[j] # NoEntry /\ cache[j].timestamp < now

\* C20 (explicit invalidation): delete(k) leaves get(k) absent and every
\* other key's entry as it was, and returns true exactly when an entry was
\* stored under k; after clear() get is absent for every key and getStats
\* reports total 0.
C20_Invalidation ==
  [][/\ \A k \in Keys :
          Delete(k)
          => /\ get(cache', k, now).ret = NULL
             /\ \A j \in Keys \ {k} : cache'[j] = cache[j]
             /\ ret' = Bool(cache[k] # NoEntry)
     /\ Clear
          => /\ \A k \in Keys : get(cache', k, now).ret = NULL
             /\ getStats(cache', now).total = 0]_vars

\* a delete has just removed a stored entry and reported true, the other
\* key's entry is still there
C20_Witness ==
  /\ last.op = "delete" /\ ret = Bool(TRUE)
  /\ cache[last.key] = NoEntry
  /\ \E j \in Keys \ {last.key} : cache[j] # NoEntry

\* C31 (a failed producer leaves the cache unchanged): when the producer of
\* a getOrFetch rejects, the call throws and the map is exactly as it was; the
\* lookup that preceded the producer created or changed no entry (it only
\* dropped the key's entry if that had expired); no entry ever holds an error;
\* and the getOrFetch of the key that follows the failure invokes the
\* producer again.
C31_FailedProducer ==
  [][/\ FetcherRejects(1) => (cache' = cache /\ ret' = Thrown)
     /\ \A k \in Keys, ttl \in TTLArgs :
          GetOrFetch(1, k, ttl)
          => /\ \A j \in Keys \ {k} : cache'[j] = cache[j]
             /\ \/ cache'[k] = cache[k]
                \/ found(cache, k, now) = "expired" /\ cache'[k] = NoEntry
     /\ \A k \in Keys, ttl \in TTLArgs :
          ( /\ last.op = "getOrFetch" /\ last.fetched /\ ret = Thrown
            /\ last.key = k
            /\ GetOrFetch(1, k, ttl) )
          => calls'[1] = [pc |-> "fetching", key |-> k, ttl |-> ttl]
     /\ \A k \in Keys : cache'[k] # NoEntry => cache'[k].data \in Values]_vars

\* the producer has failed for a key, the map holds what it held (the other
\* key's live entry, nothing under the key), and the producer is running
\* again for the same key
C31_Witness ==
  /\ last.op = "getOrFetch" /\ last.fetched /\ ret = Thrown
  /\ calls[1] # Idle /\ calls[1].key = last.key
  /\ cache[last.key] = NoEntry
  /\ \E j \in Keys \ {last.key} : found(cache, j, now) = "live"

\* C37 (read-time boundary, lazy eviction): get(key) on an entry with
\* now - timestamp <= ttl, equality included, returns its payload and leaves
\* the map as it was; get(key) on an entry with now - timestamp > ttl
\* returns null and removes that entry and no other; get of a key without
\* an entry changes nothing.
C37_ReadBoundary ==
  [][\A k \in Keys :
       Get(k) =>
         /\ (cache[k] # NoEntry /\ now - cache[k].timestamp <= cache[k].ttl)
              => (ret' = cache[k].data /\ cache' = cache)
         /\ (cache[k] # NoEntry /\ now - cache[k].timestamp > cache[k].ttl)
              => /\ ret' = NULL
                 /\ cache'[k] = NoEntry
                 /\ \A j \in Keys \ {k} : cache'[j] = cache[j]
         /\ cache[k] = NoEntry => cache' = cache]_vars

\* a get has just returned the payload of an entry whose age equals its ttl
\* of 50 ms, the entry is still stored, and the other key's entry, which has
\* expired, was left in the map
C37_Witness ==
  /\ last.op = "get" /\ last.found = "live"
  /\ cache[last.key] # NoEntry
  /\ cache[last.key].ttl = 50 /\ now - cache[last.key].timestamp = 50
  /\ ret = cache[last.key].data /\ ret # NULL
  /\ \E j \in Keys \ {last.key} :
       cache[j] # NoEntry /\ now - cache[j].timestamp > cache[j].ttl

\* C35 (invalidation is not undone by a fetch in flight): when delete(key)
\* or clear() was called while a getOrFetch of the key awaited its producer,
\* the value that producer resolves with afterwards is not stored: the key
\* stays without an entry.
C35_InvalidationHolds ==
  [][\A v \in Values :
       ( /\ FetcherResolves(1, v)
         /\ last.op \in {"delete", "clear"}
         /\ 1 \in last.during
         /\ last.op = "delete" => last.key = calls[1].key )
       => cache'[calls[1].key] = NoEntry]_vars

\* the entries stored in a map
stored(c) == {k \in Keys : c[k] # NoEntry}

\* C21 (statistics): getStats reports total = the number of stored entries,
\* valid = the number of entries with now - timestamp <= ttl, expired = the
\* number with now - timestamp > ttl, hence total = valid + expired; the call
\* changes no entry, an expired one stays in the map.
C21_StatsCounts ==
  [][GetStats =>
       /\ ret'.total = Cardinality(stored(cache))
       /\ ret'.valid =
            Cardinality({k \in stored(cache) : now - cache[k].timestamp <= cache[k].ttl})
       /\ ret'.expired =
            Cardinality({k \in stored(cache) : now - cache[k].timestamp > cache[k].ttl})
       /\ ret'.total = ret'.valid + ret'.expired
       /\ cache' = cache]_vars

\* getStats has just counted one expired entry, still in the map, next to
\* an entry whose age equals its ttl
C21_Witness ==
  /\ last.op = "getStats"
  /\ ret.total = 2 /\ ret.valid = 1 /\ ret.expired = 1
  /\ \E k \in stored(cache) : now - cache[k].timestamp > cache[k].ttl
  /\ \E k \in stored(cache) : now - cache[k].timestamp = cache[k].ttl

\* C22 (get never throws): get(key) returns null for a key without an entry
\* and for a key whose entry has expired, and the stored payload for a key
\* with a live entry; it throws in no case.
C22_GetTotal ==
  [][\A k \in Keys :
       Get(k) =>
         /\ ret' # Thrown
         /\ found(cache, k, now) \in {"absent", "expired"} => ret' = NULL
         /\ found(cache, k, now) = "live" => ret' = cache[k].data]_vars

\* a get of a key that never held an entry has just returned null, while
\* the other key holds a live entry
C22_Witness ==
  /\ last.op = "get" /\ last.found = "absent"
  /\ ret = NULL
  /\ \E j \in Keys \ {last.key} : found(cache, j, now) = "live"

-----------------------------------------------------------------------------
(* Properties of the client *)

\* C4 (rate ceiling): whatever the callers submit concurrently, any two jobs
\* of the shared limiter begin at least MIN_REQUEST_INTERVAL apart, so the
\* j-th job begins no earlier than (j - i) intervals after the i-th.
C4_RateCeiling ==
  \A i, j \in 1..Len(starts) :
    i < j => starts[j] - starts[i] >= (j - i) * MIN_REQUEST_INTERVAL

\* four jobs of two concurrent callers began back to back, exactly one
\* interval apart
C4_Witness ==
  /\ Len(starts) >= 4
  /\ starts[4] - starts[1] = 3 * MIN_REQUEST_INTERVAL
  /\ \A c \in Callers : trav[c] # NoCall

\* a failure without a response: connection refused, request timed out
NetworkLevel(e) == e.status = 0

\* C5 (retry exhaustion): a request all of whose attempts failed at network
\* level made exactly 1 + MAX_RETRIES attempts and then raised.
C5_RetryExhaustion ==
  (lastReq # NoReq /\ \A k \in DOMAIN lastReq.log : NetworkLevel(lastReq.log[k]))
    => (Len(lastReq.log) = 1 + MAX_RETRIES /\ ~lastReq.res.ok)

\* an HTTP error status other than 404 and 429
OtherFailure(e) == e.status \notin {0, 200, 404, 429}

\* C6 (non-retryable failures): an attempt that fails with an HTTP error
\* status other than 404 and 429 is the last attempt of its request, and the
\* request raises.
C6_NotRetried ==
  /\ \A c \in Callers :
       req[c].pc # "none" => \A k \in DOMAIN req[c].log : ~OtherFailure(req[c].log[k])
  /\ lastReq # NoReq =>
       \A k \in DOMAIN lastReq.log :
         OtherFailure(lastReq.log[k]) => (k = Len(lastReq.log) /\ ~lastReq.res.ok)

\* what the specification classifies as retryable
SpecRetryable(e) == e.status = 0 \/ e.status = 429

\* C7 (retryable failures): an attempt k <= MAX_RETRIES that fails at network
\* level (refused or timed out) or with HTTP 429 is followed by another
\* attempt.
C7_Retried ==
  lastReq # NoReq =>
    \A k \in DOMAIN lastReq.log :
      (SpecRetryable(lastReq.log[k]) /\ k <= MAX_RETRIES) => k < Len(lastReq.log)

\* C8 (404 normalization): an attempt answered 404 is the last attempt of its
\* request (no retry follows it), and the request returns the empty envelope
\* instead of raising.
C8_NotFoundIsEmpty ==
  /\ \A c \in Callers :
       req[c].pc # "none" => \A k \in DOMAIN req[c].log : req[c].log[k].status # 404
  /\ lastReq # NoReq =>
       \A k \in DOMAIN lastReq.log :
         lastReq.log[k].status = 404
           => /\ k = Len(lastReq.log)
              /\ lastReq.res = [ok |-> TRUE, data |-> EmptyEnvelope]

\* a request answered 404 on its first attempt returned the empty envelope
C8_Witness ==
  /\ lastReq # NoReq
  /\ lastReq.log = <<HttpError(404)>>
  /\ lastReq.res = [ok |-> TRUE, data |-> EmptyEnvelope]
  /\ trav[1].pc = "done"

\* C9 (pagination completeness): a fetchAllData call during which every page
\* of the chain was delivered returns the records of all pages, in page order
\* and in-page order.
C9_PaginationComplete ==
  \A c \in Callers :
    (trav[c].pc = "done" /\ trav[c].op = "fetchAllData" /\ trav[c].e404 = 0)
      => trav[c].allData = allRecords(upstream, 1)

\* a traversal of three pages, one of them empty, returned all records
C9_Witness ==
  \E c \in Callers :
    /\ trav[c].pc = "done" /\ trav[c].op = "fetchAllData" /\ trav[c].e404 = 0
    /\ Len(upstream) >= 3
    /\ \E p \in DOMAIN upstream : upstream[p] = 0
    /\ Len(trav[c].allData) >= 4

\* C10 (no partial result): a fetchAllData call that returns holds the
\* records of every page, and so does the cache entry stored by getOrFetch;
\* a page after the first that is not delivered makes the call raise.  (The
\* 404 normalization of the first request is not counted against the claim.)
C10_NoPartialResult ==
  /\ \A c \in Callers :
       (trav[c].pc = "done" /\ trav[c].op = "fetchAllData" /\ trav[c].e404 # 1)
         => trav[c].allData = allRecords(upstream, 1)
  /\ (cache[CatalogKey] # NoEntry /\ \A c \in Callers : trav[c].e404 # 1)
       => cache[CatalogKey].data = Val(allRecords(upstream, 1))

-----------------------------------------------------------------------------
(* Properties of the batch splitter *)

\* ceil(n / b)
ceilDiv(n, b) == (n + b - 1) \div b

RECURSIVE flatten(_)
\* the concatenation of a sequence of sequences
flatten(ss) == IF ss = <<>> THEN <<>> ELSE Head(ss) \o flatten(Tail(ss))

\* C11 (batch partitioning): batchRequest over n identifiers issues exactly
\* ceil(n / MAX_BATCH_SIZE) requests; the k-th carries identifiers
\* (k-1)*25+1 .. min(k*25, n) of the list, at most 25 of them, separated by
\* commas; the result is the concatenation of the responses' values in chunk
\* order, and has n records when no chunk was answered 404 or cut by paging.
C11_BatchPartitioning ==
  \A c \in Callers :
    trav[c].op = "batchRequest" =>
      LET t == trav[c]
          n == Len(t.ids)
          m == ceilDiv(n, MAX_BATCH_SIZE)
          chunk(k) == SubSeq(t.ids, (k - 1) * MAX_BATCH_SIZE + 1,
                             IF k * MAX_BATCH_SIZE < n THEN k * MAX_BATCH_SIZE ELSE n)
      IN
      /\ Len(t.sent) <= m
      /\ \A k \in 1..Len(t.sent) :
           /\ Len(chunk(k)) \in 1..MAX_BATCH_SIZE
           /\ Len(t.sent[k]) = 2 * Len(chunk(k)) - 1
           /\ \A j \in 1..Len(chunk(k)) : t.sent[k][2 * j - 1] = chunk(k)[j]
           /\ \A j \in 1..(Len(chunk(k)) - 1) : t.sent[k][2 * j] = Comma
      /\ t.pc = "done" =>
           /\ Len(t.sent) = m
           /\ flatten([k \in 1..m |-> chunk(k)]) = t.ids
           /\ Len(t.resps) = m
           /\ t.allData = flatten(t.resps)
           /\ (t.e404 = 0 /\ upstream.limit >= MAX_BATCH_SIZE)
                => Len(t.allData) = n

\* batchRequest over the longest list returned after three requests, the
\* last one for the partial chunk, with one record per identifier
C11_Witness ==
  \E c \in Callers :
    /\ trav[c].op = "batchRequest" /\ trav[c].pc = "done"
    /\ Len(trav[c].ids) = MaxIds
    /\ Len(trav[c].sent) = 3
    /\ Len(trav[c].sent[3]) = 2 * (MaxIds - 2 * MAX_BATCH_SIZE) - 1
    /\ Len(trav[c].allData) = MaxIds

\* C12 (one flattening fetch per chunk): when batchRequest returns and no
\* chunk was answered 404, its result holds the records of all pages of every
\* chunk, that is one record per identifier, in order.
C12_BatchFlattensPages ==
  \A c \in Callers :
    (trav[c].op = "batchRequest" /\ trav[c].pc = "done" /\ trav[c].e404 = 0)
      => trav[c].allData = [j \in 1..Len(trav[c].ids) |-> record(trav[c].ids[j])]

-----------------------------------------------------------------------------
(* Properties of the tools *)

\* C13 (error taxonomy): a tool call that raised after its request used up
\* all 1 + MAX_RETRIES attempts surfaces RATE_LIMITED when every attempt was
\* answered 429, and NETWORK_ERROR when every attempt failed at connection
\* level; in neither case the generic API_ERROR.
C13_ErrorTaxonomy ==
  \A c \in Callers :
    ( /\ trav[c].op \in {"get_kpi", "get_kpis"}
      /\ trav[c].pc = "raised"
      /\ Len(trav[c].log) = 1 + MAX_RETRIES )
    => /\ (\A k \in DOMAIN trav[c].log : trav[c].log[k].status = 429)
            => trav[c].error.kind = "RATE_LIMITED"
       /\ (\A k \in DOMAIN trav[c].log : NetworkLevel(trav[c].log[k]))
            => trav[c].error.kind = "NETWORK_ERROR"

\* the arguments the claim calls invalid: a malformed id for get_kpi; more
\* than 25 ids, or a malformed id among them, for get_kpis
invalidArgs(t) ==
  \/ t.op = "get_kpi" /\ t.ids[1] \in MalformedKpiIds
  \/ t.op = "get_kpis" /\ Len(t.ids) > 25
  \/ t.op = "get_kpis" /\ \E i \in DOMAIN t.ids : t.ids[i] \in MalformedKpiIds

\* C14 (validation precedes I/O): a get_kpi or get_kpis call with invalid
\* arguments has raised a validation error, has never had a request queued,
\* sent or answered, and has made no cache call; a call with valid arguments
\* raises no validation error; the batch-size error is raised exactly for
\* lists longer than the limit (the empty list passes).
C14_ValidationPrecedesIO ==
  \A c \in Callers :
    trav[c].op \in {"get_kpi", "get_kpis"} =>
      /\ invalidArgs(trav[c]) =>
           /\ trav[c].pc = "raised"
           /\ trav[c].error.mcp /\ trav[c].error.kind = "VALIDATION_ERROR"
           /\ trav[c].sent = <<>> /\ trav[c].log = <<>>
           /\ req[c] = NoReq /\ running # c
           /\ \A i \in DOMAIN queue : queue[i] # c
           /\ lastReq # NoReq => lastReq.client # c
           /\ calls[c] = Idle /\ last = NoOp
           /\ \A k \in Keys : cache[k] = NoEntry
      /\ ~invalidArgs(trav[c]) => trav[c].error.kind # "VALIDATION_ERROR"
      /\ trav[c].op = "get_kpis" =>
           (trav[c].error.message = "TOO_MANY_IDS" <=> Len(trav[c].ids) > 25)

\* get_kpis was refused 26 ids without any request of its own, while the
\* other caller's get_kpis with 25 ids went upstream and returned them
C14_Witness ==
  \E c, d \in Callers :
    /\ trav[c].op = "get_kpis" /\ Len(trav[c].ids) = 26
    /\ trav[c].pc = "raised" /\ trav[c].error.message = "TOO_MANY_IDS"
    /\ trav[d].op = "get_kpis" /\ Len(trav[d].ids) = 25
    /\ trav[d].pc = "done" /\ Len(trav[d].allData) = 25
    /\ starts = <<0>>

\* the lookups of one entity by its id
byId(c) == trav[c].op \in {"get_kpi", "get_kpi_group"}

\* C26 (missing entity): when the request of get_kpi or get_kpi_group is
\* answered 404, or 200 with an empty values list, the tool raises a typed
\* NOT_FOUND error that carries a suggestion; it returns no payload and
\* does not raise the generic API_ERROR.
C26_MissingIsNotFound ==
  \A c \in Callers :
    ( /\ byId(c) /\ trav[c].log # <<>>
      /\ \/ trav[c].log[Len(trav[c].log)].status = 404
         \/ trav[c].log[Len(trav[c].log)] = Ok /\ trav[c].ids[1] \in Missing )
    => /\ trav[c].pc = "raised"
       /\ trav[c].allData = <<>>
       /\ trav[c].error.mcp /\ trav[c].error.kind = "NOT_FOUND"
       /\ "suggestion" \in DOMAIN trav[c].error.details

\* get_kpi for an id the API answered 404 and get_kpi_group for a group of
\* which the API returned no values have both raised NOT_FOUND
C26_Witness ==
  \E c, d \in Callers :
    /\ trav[c].op = "get_kpi" /\ trav[c].log = <<HttpError(404)>>
    /\ trav[c].error.kind = "NOT_FOUND"
    /\ trav[d].op = "get_kpi_group" /\ trav[d].log = <<Ok>>
    /\ trav[d].ids[1] \in Missing
    /\ trav[d].error.message = "GROUP_NOT_FOUND"

-----------------------------------------------------------------------------
(* Properties of the key builder *)

\* the name/value pairs of a parameter object, whatever their order
pairs(params) == {params[i] : i \in DOMAIN params}

\* C15 (key stability): two generateKey calls with the same endpoint and
\* parameter objects holding the same name/value pairs, inserted in any
\* order, return the same key.
C15_KeyStability ==
  (last.op = "generateKey" /\ last.endpoint = last.prev.endpoint
     /\ pairs(last.params) = pairs(last.prev.params))
    => last.key = last.prev.key

\* two calls with three parameters inserted in different orders returned
\* one key
C15_Witness ==
  /\ last.op = "generateKey"
  /\ last.endpoint = last.prev.endpoint
  /\ Len(last.params) = 3
  /\ last.params # last.prev.params
  /\ pairs(last.params) = pairs(last.prev.params)
  /\ last.key = last.prev.key
  /\ ret = Val(last.key)

-----------------------------------------------------------------------------
(* Properties of the JSON-RPC entry point *)

\* C25 (no unhandled rejection): for every request, whatever its method,
\* the tool, prompt or resource it names and however the handler it awaits
\* settles, handleRPCRequest resolves with a response that carries the
\* request's id and exactly one of result and error, the error being a
\* structured {code, message}; it never rejects.
C25_AlwaysResponds ==
  last.op = "rpc" =>
    /\ ret # Thrown
    /\ ret.id = last.request.id
    /\ (ret.result = Undefined) # (ret.error = Undefined)
    /\ ret.error # Undefined => DOMAIN ret.error = {"code", "message"}

\* a tools/call of a known tool whose handler threw a typed error was
\* answered with the request's id and a structured error, no result
C25_Witness ==
  /\ last.op = "rpc"
  /\ last.request.method = Val("tools/call")
  /\ last.request.id = Num(1)
  /\ last.request.params = [name |-> Val("get_kpi"), arguments |-> Val("accepted")]
  /\ last.awaited.settled = "rejected"
  /\ last.awaited.error = createMcpError("NOT_FOUND", "KPI_NOT_FOUND",
                                         Suggestion("KPI_NOT_FOUND"))
  /\ ret.id = Num(1) /\ ret.result = Undefined
  /\ ret.error = [code |-> INTERNAL_ERROR, message |-> "KPI_NOT_FOUND"]

\* C32 (arguments are validated on every path): whichever way a tool is
\* invoked, through the MCP CallTool handler, through handleRPCRequest or
\* through POST /rpc of http-server.ts, its handler runs only with the
\* arguments that tool.inputSchema.parse returned.
C32_ValidatedArgs ==
  last.op \in {"callTool", "rpc", "postRpc"} =>
    \A i \in DOMAIN last.handler : last.handler[i] = Val("validated")

-----------------------------------------------------------------------------
(* Properties of the limiter's queue *)

\* C24 (FIFO): the jobs handed to the limiter begin in the order in which
\* they were scheduled, whichever callers scheduled them: the k-th job to
\* begin is the k-th job scheduled, and the jobs that wait are the ones
\* scheduled after it, in their order.
C24_Fifo ==
  /\ running # 0 => req[running].ticket = Len(starts)
  /\ \A i \in DOMAIN queue : req[queue[i]].ticket = Len(starts) + i

\* a single request scheduled second has begun second, ahead of the other
\* caller's request for its page 2, which was scheduled third and was
\* waiting behind it when the limiter chose
C24_Witness ==
  \E c, d \in Callers :
    /\ c # d
    /\ trav[d].op = "request" /\ running = d /\ req[d].ticket = 2
    /\ Len(starts) = 2
    /\ queue = <<c>> /\ req[c].ticket = 3 /\ req[c].url = 2

\* C34 (every attempt is spaced): an HTTP attempt under way, a first attempt
\* or a retry, was sent at least MIN_REQUEST_INTERVAL after the last attempt
\* of the request that settled before it.
C34_AttemptSpacing ==
  \A c \in Callers :
    (req[c].pc = "sent" /\ lastReq # NoReq)
      => req[c].sentAt - lastReq.sentAt >= MIN_REQUEST_INTERVAL

\* C39 (the error after exhausted retries): when every attempt of a request
\* has failed and the retries are used up, the message of the error that
\* request throws holds the last attempt's error text, the number of
\* attempts made and the endpoint.
C39_ExhaustedError ==
  (lastReq # NoReq /\ ~lastReq.res.ok /\ Len(lastReq.log) = 1 + MAX_RETRIES)
    => LET m == lastReq.res.message IN
       /\ \E i \in DOMAIN m : m[i] = lastReq.log[Len(lastReq.log)]
       /\ \E i \in DOMAIN m : m[i] = Num(Len(lastReq.log))
       /\ \E i \in DOMAIN m : m[i] = [endpoint |-> lastReq.url]

C27_IntervalFromRate ==
  (last.op = "config" /\ starts # <<>>)
    => nextRequest - starts[Len(starts)]
         = 1000 \div last.config.MAX_REQUESTS_PER_SECOND

-----------------------------------------------------------------------------
(* Properties of the page walker *)

\* the calls that walk a page chain: fetchAllData, direct or as the fetcher
\* of getOrFetch
traversing(c) == trav[c].op \in {"fetchAllData", "getOrFetch"}

\* the requests of client c that the limiter holds, queued or executing
held(c) ==
  Cardinality({i \in DOMAIN queue : queue[i] = c}) + (IF running = c THEN 1 ELSE 0)

\* C23 (sequential page fetching): within one traversal the request for page
\* i+1 is issued only after the envelope of page i has been received, so the
\* traversal has at most one request outstanding, and the reference it
\* requests is the next_page that page i's envelope carried.
C23_SequentialPages ==
  \A c \in Callers :
    traversing(c) =>
      /\ Len(trav[c].reqs) <= Len(trav[c].envs) + 1
      /\ \A i \in 2..Len(trav[c].reqs) :
           /\ trav[c].envs[i - 1].next_page # 0
           /\ trav[c].reqs[i].url = trav[c].envs[i - 1].next_page
      /\ held(c) <= 1
      /\ req[c] # NoReq =>
           /\ Len(trav[c].envs) = Len(trav[c].reqs) - 1
           /\ req[c].url = trav[c].reqs[Len(trav[c].reqs)].url

\* both callers walk a chain of three pages at once: one has sent its third
\* request after two envelopes, the other waits in the queue with its second
C23_Witness ==
  \E c, d \in Callers :
    /\ traversing(c) /\ traversing(d) /\ c # d
    /\ Len(upstream) = 3
    /\ req[c].pc = "sent" /\ req[c].url = 3 /\ Len(trav[c].envs) = 2
    /\ req[d].pc = "queued" /\ req[d].url = 2 /\ Len(trav[d].envs) = 1

\* C33 (concurrent traversals share the limiter): with several traversals
\* under way at once, every request issued is a job of the one limiter (it
\* waits in its queue or is its running job, and the jobs begun are the
\* requests of all traversals together), consecutive jobs begin at least
\* MIN_REQUEST_INTERVAL apart, and a traversal that returns holds the records
\* of the chain's pages in order (up to the page answered with 404, if any),
\* as it does when it runs alone.
C33_ConcurrentTraversals ==
  LET begun(c) == IF trav[c] = NoCall THEN 0
                  ELSE Len(trav[c].reqs) - (IF req[c].pc = "queued" THEN 1 ELSE 0)
  IN
  /\ \A c \in Callers :
       /\ req[c].pc \in {"sent", "backoff"} => running = c
       /\ req[c].pc = "queued" => \E i \in DOMAIN queue : queue[i] = c
  /\ Len(starts) = begun(1) + begun(2)
  /\ \A i \in 1..(Len(starts) - 1) :
       starts[i + 1] - starts[i] >= MIN_REQUEST_INTERVAL
  /\ \A c \in Callers :
       (traversing(c) /\ trav[c].pc = "done" /\ trav[c].reqs # <<>>)
         => trav[c].allData =
              allRecords(IF trav[c].e404 = 0 THEN upstream
                         ELSE SubSeq(upstream, 1, trav[c].e404 - 1), 1)

\* two traversals of a chain of three pages interleave: four jobs have
\* begun, one interval apart or more; one caller, holding pages 1 and 2,
\* waits in the queue with its third request while the other's second is
\* being executed
C33_Witness ==
  \E c, d \in Callers :
    /\ c # d /\ trav[c].op = "fetchAllData" /\ trav[d].op = "fetchAllData"
    /\ upstream = <<2, 2, 2>>
    /\ Len(starts) = 4
    /\ req[c].pc = "sent" /\ req[c].url = 2
    /\ trav[c].allData = values(upstream, 1)
    /\ req[d].pc = "queued" /\ req[d].url = 3
    /\ trav[d].allData = values(upstream, 1) \o values(upstream, 2)

\* C38 (traversal termination): a fetchAllData call requests no page of the
\* upstream twice, so it makes at most as many requests as the upstream has
\* pages and then returns or raises, also when the next_page links lead
\* back to a page already fetched.
C38_BoundedTraversal ==
  \A c \in Callers :
    (traversing(c) /\ trav[c].reqs # <<>>) =>
      \A i, j \in DOMAIN trav[c].reqs :
        i < j => trav[c].reqs[i].url # trav[c].reqs[j].url

\* C30 (page walker protocol): the first request of a traversal carries the
\* caller's params, every later one goes to the previous envelope's next_page
\* without query params; what is collected is the values of the envelopes in
\* order, an envelope with empty values adding nothing while its next_page
\* is still followed; the traversal returns exactly when an envelope without
\* next_page has been received, so a chain of N pages delivered in full
\* takes N requests.
C30_WalkerProtocol ==
  \A c \in Callers :
    (traversing(c) /\ trav[c].reqs # <<>>) =>
      LET t == trav[c] IN
      /\ t.reqs[1] = [url |-> 1,
                      params |-> IF t.op = "fetchAllData" THEN ToolParams
                                 ELSE Undefined]
      /\ \A i \in 2..Len(t.reqs) :
           t.reqs[i] = [url |-> t.envs[i - 1].next_page, params |-> Undefined]
      /\ t.pc # "raised" =>
           t.allData = flatten([i \in 1..Len(t.envs) |-> t.envs[i].values])
      /\ \A i \in 1..Len(t.envs) : t.envs[i].next_page # 0 => Len(t.reqs) > i
      /\ t.pc = "done" <=>
           (Len(t.envs) = Len(t.reqs) /\ t.envs[Len(t.envs)].next_page = 0)
      /\ (t.pc = "done" /\ t.e404 = 0) => Len(t.reqs) = Len(upstream)

\* a tool's traversal of three pages, the second one empty, returned after
\* three requests, the first with the tool's params
C30_Witness ==
  \E c \in Callers :
    /\ trav[c].op = "fetchAllData" /\ trav[c].pc = "done" /\ trav[c].e404 = 0
    /\ upstream = <<2, 0, 2>>
    /\ Len(trav[c].reqs) = 3
    /\ trav[c].reqs[1].params = ToolParams
    /\ Len(trav[c].allData) = 4

\* C29 (key without parameters): generateKey(endpoint, params) returns
\* endpoint itself, with nothing appended, when params is absent or has no
\* entries.
C29_BareEndpoint ==
  (last.op = "generateKey" /\ last.params = <<>>)
    => (last.key = last.endpoint /\ ret = Val(last.endpoint))

\* a call without parameters has returned the endpoint, right after a call
\* for the same endpoint with parameters returned a longer key
C29_Witness ==
  /\ last.op = "generateKey" /\ last.params = <<>>
  /\ last.key = <<"/", "k">> /\ ret = Val(<<"/", "k">>)
  /\ ~last.first
  /\ last.prev.endpoint = last.endpoint
  /\ last.prev.params # <<>>
  /\ Len(last.prev.key) > Len(last.key)

=============================================================================
